---------------------------- MODULE Spec2Model ----------------------------
(***************************************************************************)
(* Impact-based test selection: the ai_test_runner_3 pipeline, its diff    *)
(* parser, locator expansion, oracle-suggestion mapping and test runner,   *)
(* and the fully oracle-driven runner of tests/ai_test_runner_full.py.     *)
(*                                                                         *)
(* Text is modelled at character level where the code compares or scores   *)
(* strings (paths, oracle lines) and at line level where the code only     *)
(* applies anchored regular expressions to whole lines (diffs, sources).   *)
(* A path is a sequence of one-character strings.  The naming convention   *)
(* of the corpus is abbreviated: the directory-and-prefix "tests/test_" is *)
(* the character "t" and the suffix ".py" is the character "y".            *)
(***************************************************************************)
EXTENDS Integers, Sequences, FiniteSets, TLC

(***************************************************************************)
(* Bounds of the model.                                                    *)
(***************************************************************************)
\* Largest number of test files in the corpus.
NumTests == 12
MaxDiffLines == 4
MaxFileLines == 4
MaxRunTests == 4
\* Largest number of lines in an oracle response drawn line by line.
MaxAiLines == 2
\* Number of hash seeds (orders in which a set of strings is iterated).
MaxSeed == 2
\* How many times update_test_metrics is called for one test file.
MaxCalls == 22
\* How many tests follow the two critical ones in a run on the pool.
MaxPoolTests == 5
\* The commits a branch is ahead of its merge base with the upstream branch.
MaxAhead == 2

(***************************************************************************)
(* Program constants of ai_test_runner_3.py.                               *)
(***************************************************************************)
MAX_PARALLEL_TESTS == 4
RETRY_ATTEMPTS == 2
HistoryKeep == 20
RecentWindow == 5
CriticalCount == 2
\* len(tests_to_run) > 10 triggers the oracle.
TooMany == 10
\* list(set(tests_to_run))[:8]
SelectionCap == 8
\* suggested_tests[:5]
AiCap == 5
\* get_close_matches(..., cutoff=0.5), as the fraction CutoffNum / CutoffDen.
CutoffNum == 1
CutoffDen == 2

\* Line 427 and line 485: exit(0 if success else 1) on a failed test.
FailureStatus == 1

\* Line 494: exit(1) in the KeyboardInterrupt handler.
InterruptStatus == 1

\* Line 498: exit(1) in the Exception handler.
ExceptionStatus == 1

(***************************************************************************)
(* Characters and strings.                                                 *)
(***************************************************************************)
\* The characters in use, in code-point order.
Alphabet == <<" ", ".", "/", "a", "b", "c", "d", "g", "m", "p", "r", "t", "y", "z">>

OrdTable ==
    [c \in { Alphabet[i] : i \in 1..Len(Alphabet) } |->
        CHOOSE i \in 1..Len(Alphabet) : Alphabet[i] = c]

\* ord(c)
Ord(c) == OrdTable[c]

\* Python's str < str: code-point lexicographic order.
RECURSIVE StrLess(_, _)
StrLess(x, y) ==
    IF y = <<>> THEN FALSE
    ELSE IF x = <<>> THEN TRUE
    ELSE IF Ord(Head(x)) # Ord(Head(y)) THEN Ord(Head(x)) < Ord(Head(y))
    ELSE StrLess(Tail(x), Tail(y))

\* str.strip(): leading and trailing whitespace removed.
RECURSIVE LStrip(_)
LStrip(s) == IF s # <<>> /\ Head(s) = " " THEN LStrip(Tail(s)) ELSE s

RECURSIVE RStrip(_)
RStrip(s) ==
    IF s # <<>> /\ s[Len(s)] = " " THEN RStrip(SubSeq(s, 1, Len(s) - 1)) ELSE s

Strip(s) == RStrip(LStrip(s))

\* file_path.endswith(".py")
EndsWithPy(p) == p # <<>> /\ p[Len(p)] = "y"

\* The elements of a list, as a set.
Range(s) == { s[i] : i \in 1..Len(s) }

\* item in a_list
InList(x, s) == \E i \in 1..Len(s) : s[i] = x

(***************************************************************************)
(* The paths of the test corpus and the lines an oracle response is made   *)
(* of.                                                                     *)
(***************************************************************************)
Letters == <<"a", "b", "c", "d">>

\* The path of the i-th test file of the corpus ("tests/test_<xy>.py").
TestPath(i) == <<"t", Letters[((i - 1) \div 4) + 1], Letters[((i - 1) % 4) + 1], "y">>

\* An empty line, a corpus path with white space around it, a near-duplicate
\* of a corpus path, a path outside the repository, a path with a traversal
\* sequence, a name whose similarity to every corpus path is exactly 0.5.
OracleLines ==
    { <<>>,
      <<" ", "t", "a", "b", "y", " ">>,
      <<"t", "a", "y">>,
      <<"z", "z">>,
      <<".", ".", "/", "t", "a", "a", "y">>,
      <<"t", "z", "z", "y">> }

(***************************************************************************)
(* difflib.SequenceMatcher and get_close_matches, as map_ai_files_to_repo  *)
(* uses them (no junk: the strings are far shorter than 200 characters).   *)
(***************************************************************************)
\* Length of the common run of a from i and b from j inside [i, ahi) x [j, bhi).
RECURSIVE RunLen(_, _, _, _, _, _)
RunLen(a, i, ahi, b, j, bhi) ==
    IF i < ahi /\ j < bhi /\ a[i] = b[j]
    THEN 1 + RunLen(a, i + 1, ahi, b, j + 1, bhi)
    ELSE 0

\* find_longest_match: the longest block, the earliest in a, then the earliest in b.
LongestMatch(a, alo, ahi, b, blo, bhi) ==
    LET runs == { <<i, j, RunLen(a, i, ahi, b, j, bhi)>> :
                    i \in alo..(ahi - 1), j \in blo..(bhi - 1) }
        best == CHOOSE p \in runs :
                    \A q \in runs :
                        \/ q[3] < p[3]
                        \/ /\ q[3] = p[3]
                           /\ \/ p[1] < q[1]
                              \/ p[1] = q[1] /\ p[2] <= q[2]
    IN  IF runs = {} THEN <<alo, blo, 0>> ELSE best

\* get_matching_blocks: the total size of the blocks, found recursively to the
\* left and to the right of the longest one.
RECURSIVE MatchCount(_, _, _, _, _, _)
MatchCount(a, alo, ahi, b, blo, bhi) ==
    LET m == LongestMatch(a, alo, ahi, b, blo, bhi)
    IN  IF m[3] = 0 THEN 0
        ELSE m[3] + MatchCount(a, alo, m[1], b, blo, m[2])
                  + MatchCount(a, m[1] + m[3], ahi, b, m[2] + m[3], bhi)

\* SequenceMatcher(a=possibility, b=word): the matches M and the total length T;
\* ratio() is 2.0 * M / T, and 1.0 when T = 0.
Matches(x, word) == MatchCount(x, 1, Len(x) + 1, word, 1, Len(word) + 1)

Total(x, word) == Len(x) + Len(word)

\* ratio() >= cutoff, for M matches in a total length of T.
AtCutoff(M, T) == IF T = 0 THEN TRUE ELSE 2 * M * CutoffDen >= CutoffNum * T

\* PairLess with the comparison of the ratios turned around.
PairLessReversed(M1, T1, x1, M2, T2, x2) ==
    \/ M1 * T2 > M2 * T1
    \/ M1 * T2 = M2 * T1 /\ StrLess(x1, x2)

\* (ratio1, x1) < (ratio2, x2) as Python orders tuples: the ratios M1/T1 and
\* M2/T2 first (the totals are positive), the strings second.
PairLess(M1, T1, x1, M2, T2, x2) ==
    \/ M1 * T2 < M2 * T1
    \/ M1 * T2 = M2 * T1 /\ StrLess(x1, x2)

\* The matches of each possibility against word, in the order of the list.
RECURSIVE MatchList(_, _)
MatchList(possibilities, word) ==
    IF possibilities = <<>> THEN <<>>
    ELSE <<Matches(Head(possibilities), word)>> \o MatchList(Tail(possibilities), word)

\* get_close_matches(word, possibilities, n=1, cutoff=0.5): the possibilities
\* at or above the cutoff, and heapq.nlargest(1, ...) of their (ratio, x)
\* pairs; a list of at most one element.
GetCloseMatches(word, possibilities) ==
    LET M == MatchList(possibilities, word)
        T(i) == Total(possibilities[i], word)
        ok == { i \in 1..Len(possibilities) : AtCutoff(M[i], T(i)) }
        best == CHOOSE i \in ok :
                    \A j \in ok :
                        \/ possibilities[j] = possibilities[i]
                        \/ PairLess(M[j], T(j), possibilities[j], M[i], T(i), possibilities[i])
    IN  IF ok = {} THEN <<>> ELSE <<possibilities[best]>>

(***************************************************************************)
(* Diff text, line by line.  A line is [mark, kind, name]:                 *)
(*   mark  its leading characters: "+", "-", " " (context), "@" (a hunk    *)
(*         header "@@ -a,b +c,d @@ <section>"), "d" ("diff --git" and      *)
(*         "index" lines), "+++" and "---" (the file header), "" (empty);  *)
(*   kind  what follows the mark: "def" (the text "def <name>("),          *)
(*         "assign" ("<name> = ..."), "stmt" (any other text);             *)
(*   name  the identifier of a def or assign, as a sequence of tokens.     *)
(* A hunk header carries the name of the function its first line lies in   *)
(* (NoName outside any function), with kind "def" when its section text    *)
(* shows that function's def line and "stmt" when it shows something else. *)
(***************************************************************************)
NoName == <<>>

Line(mark, kind, name) == [mark |-> mark, kind |-> kind, name |-> name]

\* line.startswith(('+', '-'))
StartsPlusMinus(l) == l.mark \in {"+", "-", "+++", "---"}

\* line.startswith(('+++', '---'))
IsFileHeader(l) == l.mark \in {"+++", "---"}

\* line.startswith((' ', '+', '-'))
StartsDiffMark(l) == l.mark \in {" ", "+", "-", "+++", "---"}

\* re.match(r'^[\+\s-]*def\s+([a-zA-Z_][a-zA-Z0-9_]*)\s*\(', line): the text
\* before "def" holds only '+', '-' and white space.
DefMatch(l) == l.kind = "def" /\ l.mark \in {"", " ", "+", "-"}

\* One iteration of the loop of get_changed_methods over the lines of a diff;
\* st = [cur, changed] holds current_method and changed_methods.
MethodsStep(st, l) ==
    IF DefMatch(l)
    THEN [st EXCEPT !.cur = l.name]
    ELSE LET added == IF StartsPlusMinus(l) /\ ~IsFileHeader(l) /\ st.cur # NoName
                      THEN st.changed \cup {st.cur}
                      ELSE st.changed
             cur == IF l.mark # "" /\ ~StartsDiffMark(l) THEN NoName ELSE st.cur
         IN  [cur |-> cur, changed |-> added]

RECURSIVE MethodsScan(_, _)
MethodsScan(st, diff) ==
    IF diff = <<>> THEN st ELSE MethodsScan(MethodsStep(st, Head(diff)), Tail(diff))

\* The changed methods of one diff: current_method starts as None.
DiffMethods(diff) == MethodsScan([cur |-> NoName, changed |-> {}], diff).changed

\* The regular expression [A-Z_0-9]+_LOCATOR on an identifier given as tokens:
\* upper-case tokens, the last one "_LOCATOR", at least one before it.
UpperTokens == {"NEW_", "OLD_", "BUTTON", "_LOCATOR", "LOGIN", "_BUTTON"}

IsLocatorName(id) ==
    /\ Len(id) >= 2
    /\ id[Len(id)] = "_LOCATOR"
    /\ \A i \in 1..Len(id) : id[i] \in UpperTokens

\* re.match(r'^[\+\-]\s*([A-Z_0-9]+_LOCATOR)\s*=', line)
LocatorMatch(l) ==
    l.mark \in {"+", "-"} /\ l.kind = "assign" /\ IsLocatorName(l.name)

\* The changed locators of one diff.
DiffLocators(diff) ==
    { diff[i].name : i \in { j \in 1..Len(diff) : LocatorMatch(diff[j]) } }

(***************************************************************************)
(* Source text, line by line.  A line is [kind, name, indent, idents]:     *)
(* kind "def" with the name defined, or "code"; indent its indentation     *)
(* level; idents the identifiers that occur in it.                         *)
(***************************************************************************)
\* Python's "needle in haystack" on token sequences.
IsSubSeq(needle, hay) ==
    \E k \in 0..(Len(hay) - Len(needle)) :
        \A i \in 1..Len(needle) : hay[k + i] = needle[i]

\* any(locator in line for locator in changed_locators)
MentionsAny(l, locators) ==
    \E loc \in locators : \E id \in l.idents : IsSubSeq(loc, id)

\* One iteration of the loop of map_locators_to_methods over the lines of a
\* file; st = [cur, impacted].  The "def" pattern is anchored by ^\s*, which
\* every def line of a source file satisfies.
LocatorsStep(st, l, locators) ==
    IF l.kind = "def"
    THEN [st EXCEPT !.cur = l.name]
    ELSE IF st.cur # NoName /\ MentionsAny(l, locators)
         THEN [st EXCEPT !.impacted = @ \cup {st.cur}]
         ELSE st

RECURSIVE LocatorsScan(_, _, _)
LocatorsScan(st, lines, locators) ==
    IF lines = <<>> THEN st
    ELSE LocatorsScan(LocatorsStep(st, Head(lines), locators), Tail(lines), locators)

\* map_locators_to_methods(file_path, changed_locators) on the file's lines.
MapLocatorsToMethods(lines, locators) ==
    LocatorsScan([cur |-> NoName, impacted |-> {}], lines, locators).impacted

(***************************************************************************)
(* The repository the pipeline runs in: its test corpus, its page object   *)
(* and the commits that may be under analysis.                             *)
(***************************************************************************)
\* get_all_test_files() in a repository with n test files.
Corpus(n) == [i \in 1..n |-> TestPath(i)]

\* pages/checkout_page.py and a file that is no Python file.
PagePath == <<"p", "g", "y">>

ReadmePath == <<"r", "m">>

\* A module that holds the locator constants and no method.
LocatorsPath == <<"p", "a", "y">>

\* Identifiers.
TestFn(i) == <<"test_", ToString(i)>>

InitFn == <<"__init__">>

SubmitOrder == <<"submit_order">>

ClickSubmit == <<"click_submit">>

LegacyHelper == <<"legacy_helper">>

NewButtonLocator == <<"NEW_", "BUTTON", "_LOCATOR">>

OldNewButtonLocator == <<"OLD_", "NEW_", "BUTTON", "_LOCATOR">>

SourceLine(kind, name, indent, idents, calls) ==
    [kind |-> kind, name |-> name, indent |-> indent, idents |-> idents, calls |-> calls]

\* The page object: a class whose locator constant is assigned at class level
\* after __init__, as in pages/checkout_page.py, and three methods:
\* click_submit uses the locator, submit_order calls click_submit.
PageLines ==
    << SourceLine("def", InitFn, 1, {}, {}),
       SourceLine("code", NoName, 2, {}, {}),
       SourceLine("code", NoName, 1, {NewButtonLocator}, {}),
       SourceLine("def", SubmitOrder, 1, {}, {}),
       SourceLine("code", NoName, 2, {ClickSubmit}, {ClickSubmit}),
       SourceLine("def", ClickSubmit, 1, {}, {}),
       SourceLine("code", NoName, 2, {NewButtonLocator}, {}),
       SourceLine("def", LegacyHelper, 1, {}, {}),
       SourceLine("code", NoName, 2, {}, {}) >>

\* The i-th test file: every test calls submit_order, the first three also
\* click_submit.
TestLines(i) ==
    << SourceLine("def", TestFn(i), 0, {}, {}),
       SourceLine("code", NoName, 1, {SubmitOrder}, {SubmitOrder}),
       SourceLine("code", NoName, 1,
                  IF i <= 3 THEN {ClickSubmit} ELSE {},
                  IF i <= 3 THEN {ClickSubmit} ELSE {}) >>

IsTestPath(path) == \E i \in 1..(NumTests + 1) : TestPath(i) = path

TestIndex(path) == CHOOSE i \in 1..(NumTests + 1) : TestPath(i) = path

\* The text of a file of the working tree.
FileLines(path) ==
    IF path = PagePath THEN PageLines
    ELSE IF path = LocatorsPath
    THEN << SourceLine("code", NoName, 0, {NewButtonLocator}, {}) >>
    ELSE IF IsTestPath(path) THEN TestLines(TestIndex(path))
    ELSE <<>>

\* The kinds of change to the non-test files in a commit.
SourceChanges ==
    {"none", "submit_order", "click_submit", "legacy_helper", "locator", "readme"}

\* A commit: the first d test files edited, each hunk showing the edited test's
\* def line as a context line (showDef) or only in its header, and one change
\* to the other files.
Commits(n) ==
    [d : 0..n, showDef : BOOLEAN, src : SourceChanges]

DiffHeader ==
    << Line("d", "stmt", NoName), Line("d", "stmt", NoName),
       Line("---", "stmt", NoName), Line("+++", "stmt", NoName) >>

BodyEdit(fn) ==
    DiffHeader \o << Line("@", "stmt", NoName), Line(" ", "def", fn),
                     Line(" ", "stmt", NoName), Line("+", "stmt", NoName) >>

\* "git diff HEAD~1 -- path" for a path of the commit.
FileDiff(commit, path) ==
    IF path = PagePath
    THEN CASE commit.src = "submit_order" -> BodyEdit(SubmitOrder)
           [] commit.src = "click_submit" -> BodyEdit(ClickSubmit)
           [] commit.src = "legacy_helper" -> BodyEdit(LegacyHelper)
           [] commit.src = "locator" ->
                DiffHeader \o << Line("@", "stmt", NoName), Line(" ", "stmt", NoName),
                                 Line("+", "assign", NewButtonLocator) >>
           [] OTHER -> <<>>
    ELSE IF path = ReadmePath
    THEN DiffHeader \o << Line("@", "stmt", NoName), Line("+", "stmt", NoName) >>
    ELSE IF path = LocatorsPath
    THEN IF commit.src = "locators_file"
         THEN DiffHeader \o << Line("@", "stmt", NoName),
                               Line("-", "assign", NewButtonLocator),
                               Line("+", "assign", NewButtonLocator) >>
         ELSE <<>>
    ELSE IF IsTestPath(path)
    THEN IF commit.showDef
         THEN BodyEdit(TestFn(TestIndex(path)))
         ELSE DiffHeader \o << Line("@", "def", TestFn(TestIndex(path))),
                               Line(" ", "stmt", NoName), Line("+", "stmt", NoName) >>
    ELSE <<>>

\* "git diff --name-only HEAD~1" for the commit.
CommitFiles(commit) ==
    [i \in 1..commit.d |-> TestPath(i)]
    \o (CASE commit.src \in {"submit_order", "click_submit", "legacy_helper", "locator"}
               -> <<PagePath>>
          [] commit.src = "readme" -> <<ReadmePath>>
          [] commit.src = "locators_file" -> <<LocatorsPath>>
          [] OTHER -> <<>>)

(***************************************************************************)
(* The functions of ai_test_runner_3.py on lists of files.                 *)
(***************************************************************************)
\* get_changed_methods(changed_files)
GetChangedMethods(commit, files) ==
    UNION { DiffMethods(FileDiff(commit, files[i])) :
              i \in { j \in 1..Len(files) : EndsWithPy(files[j]) } }

\* get_changed_locators(changed_files)
GetChangedLocators(commit, files) ==
    UNION { DiffLocators(FileDiff(commit, files[i])) :
              i \in { j \in 1..Len(files) : EndsWithPy(files[j]) } }

\* Lines 439-442: the methods that map_locators_to_methods adds.
LocatorMethods(files, locators) ==
    IF locators = {} THEN {}
    ELSE UNION { MapLocatorsToMethods(FileLines(files[i]), locators) :
                   i \in { j \in 1..Len(files) : EndsWithPy(files[j]) } }

\* any(p.search(content) for p in patterns): some changed method's name is
\* followed by "(" in the file, at a call or at its def line.
UsesMethods(lines, methods) ==
    \E i \in 1..Len(lines) :
        \/ lines[i].kind = "def" /\ lines[i].name \in methods
        \/ lines[i].calls \cap methods # {}

\* find_tests_using_methods(test_files, changed_methods)
FindTestsUsingMethods(test_files, methods) ==
    LET Uses(path) == UsesMethods(FileLines(path), methods)
    IN  SelectSeq(test_files, Uses)

\* [f for f in changed_files if f in repo_tests]
ChangedTestFiles(files, tests) ==
    LET Known(f) == InList(f, tests)
    IN  SelectSeq(files, Known)

\* The smallest string of a non-empty set.
MinStr(S) == CHOOSE x \in S : \A z \in S : z = x \/ StrLess(x, z)

RECURSIVE SortedList(_)
SortedList(S) ==
    IF S = {} THEN <<>>
    ELSE LET m == MinStr(S) IN <<m>> \o SortedList(S \ {m})

\* list(set(xs)): the distinct elements in the iteration order of a set of
\* strings, which the interpreter's hash seed decides; seed sd gives the sorted
\* order rotated by sd places.
ListOfSet(xs, sd) ==
    LET S == Range(xs)
        sorted == SortedList(S)
        n == Len(sorted)
    IN  [i \in 1..n |-> sorted[((i - 1 + sd) % n) + 1]]

\* xs[:k]
Take(xs, k) == SubSeq(xs, 1, IF Len(xs) < k THEN Len(xs) ELSE k)

\* MapOne with the fuzzy step's failure ignored: an unmatched line is kept.
MapOneKeepingUnmatched(ai_file, tests) ==
    IF InList(ai_file, tests) THEN <<ai_file>>
    ELSE IF GetCloseMatches(ai_file, tests) = <<>> THEN <<ai_file>>
    ELSE GetCloseMatches(ai_file, tests)

\* One line of map_ai_files_to_repo's loop: what ai_file appends.
MapOne(ai_file, tests) ==
    IF InList(ai_file, tests) THEN <<ai_file>> ELSE GetCloseMatches(ai_file, tests)

RECURSIVE MapAll(_, _)
MapAll(ai_files, tests) ==
    IF ai_files = <<>> THEN <<>>
    ELSE MapOne(Head(ai_files), tests) \o MapAll(Tail(ai_files), tests)

\* Lines 229-233 of ask_ollama_for_tests: the stripped non-empty lines of the
\* response text, the first five of them.
NonEmpty(line) == line # <<>>

StrippedLines(output) ==
    SelectSeq([i \in 1..Len(output) |-> Strip(output[i])], NonEmpty)

SuggestedTests(output) == Take(StrippedLines(output), AiCap)

(***************************************************************************)
(* The oracle: the response texts it may give, as lists of lines.          *)
(***************************************************************************)
RECURSIVE Texts(_)
Texts(k) ==
    IF k = 0 THEN { <<>> }
    ELSE Texts(k - 1) \cup { Append(t, l) : t \in { u \in Texts(k - 1) : Len(u) = k - 1 },
                                              l \in OracleLines }

\* A response of more lines than ask_ollama_for_tests keeps.
LongText == [i \in 1..(AiCap + 1) |-> TestPath(i)]

OracleTexts == Texts(MaxAiLines) \cup {LongText}

(***************************************************************************)
(* State.  The first group is one invocation of a runner script (the       *)
(* __main__ block of ai_test_runner_3.py, or of                            *)
(* tests/ai_test_runner_full.py); the second the loops of                  *)
(* get_changed_methods and map_locators_to_methods over the lines of one   *)
(* text; the third one call of run_tests_intelligently.  A specification   *)
(* below moves one group and leaves the others at rest.                    *)
(***************************************************************************)
VARIABLES
    pc,               \* position in the code that is running
    repo_tests,       \* get_all_test_files(): the corpus
    commit,           \* what the version control system reports
    changed_files,
    changed_methods,
    changed_locators,
    tests_to_run,
    oracle_called,    \* the oracle was asked in this invocation
    oracle_reply,     \* how the request to the oracle ended, "none" before it
    ai_suggested,
    mapped_tests,
    seed,             \* the interpreter's hash seed, -1 until it first matters
    handed,           \* the list handed to run_tests_intelligently or to pytest
    ran,              \* run_tests_intelligently (or pytest) was called
    run_result,       \* what run_tests_intelligently returned: "passed", "failed"
    saved,            \* save_test_history was called
    exit_code,        \* -1 while the process runs
    ended_by,         \* what ended the process: "exit", "interrupt", "exception"
    run_no,           \* 1, or 2 for a second invocation on the same commit
    prev_selection    \* the first invocation's final tests_to_run

VARIABLES
    diff_output,      \* the lines of the diff get_changed_methods reads
    file_lines,       \* the lines of the file map_locators_to_methods reads
    line_no,          \* the line the loop is at
    current_method,
    impacted_methods,
    extract_in,       \* the diff texts of two files, a and d, that the calls read
    pending,          \* the diff texts of the files the loop over the files has left
    call_no,          \* which call of the two extraction functions is under way
    first_result      \* the two sets the first call returned

VARIABLES
    prioritized_tests,  \* run_tests_intelligently's list, in execution order
    status,             \* of each test: "waiting", "running", "returned", "settled"
    attempts,           \* of each test: the outcomes of its attempts so far
    test_success,       \* of each test: what run_test_with_monitoring returned
    history,            \* the history map: a record for each path in it
    history0,           \* the history map as it was when the call began
    calls,              \* the calls of update_test_metrics made so far, in order
    queue,              \* the work items of the executor that no worker has taken
    job,                \* of each worker thread: the test it runs, 0 when idle
    updaters,           \* the calls of update_test_metrics that are executing, each
                        \* with its thread: 0 the coordinating one, w a worker
    all_success

VARIABLES
    cache,              \* .cache/ai_test_map.json: commit hash to JSON array
    parsed              \* this run of ai_test_runner_fast read and parsed the diffs

VARIABLES
    revisions,          \* the branch from its merge base to HEAD: each file's content
    mode,               \* where ai_test_runner_full_2 runs: "ci", "upstream", "local"
    name_refs,          \* the two revisions get_changed_files compared
    file_diffs          \* ai_test_runner_full_2's file_diffs: a diff text for each file

pvars == <<pc, repo_tests, commit, changed_files, changed_methods, changed_locators,
           tests_to_run, oracle_called, oracle_reply, ai_suggested, mapped_tests, seed, handed,
           ran, run_result, saved, exit_code, ended_by, run_no, prev_selection>>

\* The variables of an invocation that the line loops do not use.
mainvars == <<repo_tests, commit, changed_files, tests_to_run, oracle_called, oracle_reply,
              ai_suggested, mapped_tests, seed, handed, ran, run_result, saved,
              exit_code, ended_by, run_no, prev_selection>>

callvars == <<extract_in, pending, call_no, first_result>>

scanvars == <<diff_output, file_lines, line_no, current_method, impacted_methods,
              callvars>>

poolvars == <<queue, job, updaters>>

runvars == <<prioritized_tests, status, attempts, test_success, history, history0,
             calls, poolvars, all_success>>

branchvars == <<revisions, mode, name_refs, file_diffs>>

fastvars == <<cache, parsed, branchvars>>

vars == <<pvars, scanvars, runvars, fastvars>>

\* No invocation is under way.
MainAtRest ==
    /\ repo_tests = <<>>
    /\ commit = [d |-> 0, showDef |-> TRUE, src |-> "none"]
    /\ changed_files = <<>>
    /\ tests_to_run = <<>>
    /\ oracle_called = FALSE
    /\ oracle_reply = "none"
    /\ ai_suggested = <<>>
    /\ mapped_tests = <<>>
    /\ seed = -1
    /\ handed = <<>>
    /\ ran = FALSE
    /\ run_result = "none"
    /\ saved = FALSE
    /\ exit_code = -1
    /\ ended_by = "none"
    /\ run_no = 1
    /\ prev_selection = <<>>

\* No call of the extraction functions is under way.
CallsAtRest ==
    /\ extract_in = [a |-> <<>>, d |-> <<>>]
    /\ pending = <<>>
    /\ call_no = 0
    /\ first_result = [methods |-> {}, locators |-> {}]

\* No line loop is under way.
ScanAtRest ==
    /\ diff_output = <<>>
    /\ file_lines = <<>>
    /\ line_no = 0
    /\ current_method = NoName
    /\ impacted_methods = {}
    /\ CallsAtRest

\* No executor exists.
PoolAtRest ==
    /\ queue = <<>>
    /\ job = <<>>
    /\ updaters = {}

\* No call of run_tests_intelligently is under way.
RunAtRest ==
    /\ prioritized_tests = <<>>
    /\ status = <<>>
    /\ attempts = <<>>
    /\ test_success = <<>>
    /\ history = <<>>
    /\ history0 = <<>>
    /\ calls = <<>>
    /\ PoolAtRest
    /\ all_success = TRUE

\* No run of ai_test_runner_full_2 is under way.
BranchAtRest ==
    /\ revisions = <<>>
    /\ mode = "none"
    /\ name_refs = <<>>
    /\ file_diffs = <<>>

\* No run of ai_test_runner_fast is under way and its cache file is absent.
FastAtRest ==
    /\ cache = <<>>
    /\ parsed = FALSE
    /\ BranchAtRest

\* The state at the start of an invocation.
Fresh ==
    /\ pc = "start"
    /\ changed_files = <<>>
    /\ changed_methods = {}
    /\ changed_locators = {}
    /\ tests_to_run = <<>>
    /\ oracle_called = FALSE
    /\ oracle_reply = "none"
    /\ ai_suggested = <<>>
    /\ mapped_tests = <<>>
    /\ seed = -1
    /\ handed = <<>>
    /\ ran = FALSE
    /\ run_result = "none"
    /\ saved = FALSE
    /\ exit_code = -1
    /\ ended_by = "none"

\* The corpus sizes under analysis: none, one, half and all of the test files.
CorpusSizes == {0, 1, NumTests \div 2, NumTests}

\* How many test files the commit under test edits: none, one, half or all.
ChangedCounts(n) == {0, 1, n \div 2, n}

PipelineInit ==
    /\ repo_tests \in { Corpus(n) : n \in CorpusSizes }
    /\ commit \in { c \in Commits(Len(repo_tests)) :
                       /\ c.d \in ChangedCounts(Len(repo_tests))
                       /\ c.d = 0 => c.showDef }
    /\ Fresh
    /\ run_no = 1
    /\ prev_selection = <<>>
    /\ ScanAtRest
    /\ RunAtRest
    /\ FastAtRest

\* The seeds the interpreter may run with: the one in use, or any.
Seeds == IF seed = -1 THEN 0..MaxSeed ELSE {seed}

\* Line 418: changed_files = get_changed_files(): the files of the commit, or
\* nothing when the git command fails or times out (run_git_cmd returns "").
GetChangedFiles ==
    /\ pc = "start"
    /\ \/ changed_files' = CommitFiles(commit)
       \/ changed_files' = <<>>
    /\ pc' = "changed"
    /\ UNCHANGED <<repo_tests, commit, changed_methods, changed_locators, tests_to_run,
                   oracle_called, oracle_reply, ai_suggested, mapped_tests, seed, handed, ran, saved,
                   exit_code, ended_by, run_no, prev_selection, run_result, scanvars, runvars, fastvars>>

\* SmokeTest with the result of the run ignored: exit(0) whatever it returns.
SmokeTestIgnoringResult ==
    /\ pc = "changed"
    /\ changed_files = <<>>
    /\ repo_tests # <<>>
    /\ handed' = <<repo_tests[1]>>
    /\ ran' = TRUE
    /\ saved' = TRUE
    /\ run_result' \in {"passed", "failed"}
    /\ exit_code' = 0
    /\ ended_by' = "exit"
    /\ pc' = "done"
    /\ UNCHANGED <<repo_tests, commit, changed_files, changed_methods,
                   changed_locators, tests_to_run, oracle_called, oracle_reply, ai_suggested,
                   mapped_tests, seed, run_no, prev_selection, scanvars, runvars, fastvars>>

\* Lines 419-427: no change and a test file exists: the first test of the
\* corpus runs as a smoke test, the history is saved, exit 0 or 1.
SmokeTest ==
    /\ pc = "changed"
    /\ changed_files = <<>>
    /\ repo_tests # <<>>
    /\ handed' = <<repo_tests[1]>>
    /\ ran' = TRUE
    /\ saved' = TRUE
    /\ \E success \in BOOLEAN :
           /\ run_result' = IF success THEN "passed" ELSE "failed"
           /\ exit_code' = IF success THEN 0 ELSE FailureStatus
           /\ ended_by' = "exit"
    /\ pc' = "done"
    /\ UNCHANGED <<repo_tests, commit, changed_files, changed_methods,
                   changed_locators, tests_to_run, oracle_called, oracle_reply, ai_suggested,
                   mapped_tests, seed, run_no, prev_selection, scanvars, runvars, fastvars>>

\* Lines 419-430: no change and no test file: exit(0).
NoTestFiles ==
    /\ pc = "changed"
    /\ changed_files = <<>>
    /\ repo_tests = <<>>
    /\ exit_code' = 0
    /\ ended_by' = "exit"
    /\ pc' = "done"
    /\ UNCHANGED <<repo_tests, commit, changed_files, changed_methods,
                   changed_locators, tests_to_run, oracle_called, oracle_reply, ai_suggested,
                   mapped_tests, seed, handed, ran, saved, run_no, prev_selection,
                   run_result, scanvars, runvars, fastvars>>

\* Analyse with the set of changed methods replaced by the locators' methods
\* when a locator has changed.
AnalyseReplacing ==
    /\ pc = "changed"
    /\ changed_files # <<>>
    /\ changed_locators' = GetChangedLocators(commit, changed_files)
    /\ changed_methods' = IF changed_locators' = {}
                          THEN GetChangedMethods(commit, changed_files)
                          ELSE LocatorMethods(changed_files, changed_locators')
    /\ pc' = "analysed"
    /\ UNCHANGED <<repo_tests, commit, changed_files, tests_to_run, oracle_called, oracle_reply,
                   ai_suggested, mapped_tests, seed, handed, ran, saved, exit_code, ended_by,
                   run_no, prev_selection, run_result, scanvars, runvars, fastvars>>

\* Lines 434-442: the changed methods, the changed locators and the methods the
\* locators add.
Analyse ==
    /\ pc = "changed"
    /\ changed_files # <<>>
    /\ changed_locators' = GetChangedLocators(commit, changed_files)
    /\ changed_methods' = GetChangedMethods(commit, changed_files)
                            \cup LocatorMethods(changed_files, changed_locators')
    /\ pc' = "analysed"
    /\ UNCHANGED <<repo_tests, commit, changed_files, tests_to_run, oracle_called, oracle_reply,
                   ai_suggested, mapped_tests, seed, handed, ran, saved, exit_code, ended_by,
                   run_no, prev_selection, run_result, scanvars, runvars, fastvars>>

\* Lines 447-459: the directly changed test files, then the tests that use a
\* changed method.
StaticSelect ==
    /\ pc = "analysed"
    /\ tests_to_run' =
          ChangedTestFiles(changed_files, repo_tests)
          \o (IF changed_methods # {}
              THEN FindTestsUsingMethods(repo_tests, changed_methods)
              ELSE <<>>)
    /\ pc' = "selected"
    /\ UNCHANGED <<repo_tests, commit, changed_files, changed_methods,
                   changed_locators, oracle_called, oracle_reply, ai_suggested, mapped_tests, seed,
                   handed, ran, saved, exit_code, ended_by, run_no, prev_selection, run_result,
                   scanvars, runvars, fastvars>>

\* Line 462: if not tests_to_run or len(tests_to_run) > 10
OracleWanted(tests) == tests = <<>> \/ Len(tests) > TooMany

\* How a request to the oracle can end without a response text: the request
\* times out, the connection fails, the HTTP status is not 200, the body is not
\* JSON, the JSON holds no "response" field, the field is not a string.
OracleFailures ==
    {"timeout", "connection", "status", "not_json", "no_field", "not_text"}

\* Lines 225-243: what ask_ollama_for_tests returns when the request ended as
\* kind: [] at the status test, [] from an except clause, or the lines of the
\* empty text that stands in for a missing field.
FailureResult(kind) ==
    IF kind = "no_field" THEN SuggestedTests(<<>>) ELSE <<>>

\* Line 463: ask_ollama_for_tests answers with a text, or fails and returns [].
AskOracle ==
    /\ pc = "selected"
    /\ OracleWanted(tests_to_run)
    /\ oracle_called' = TRUE
    /\ \/ \E text \in OracleTexts :
              /\ oracle_reply' = "text"
              /\ ai_suggested' = SuggestedTests(text)
       \/ \E kind \in OracleFailures :
              /\ oracle_reply' = kind
              /\ ai_suggested' = FailureResult(kind)
    /\ pc' = "asked"
    /\ UNCHANGED <<repo_tests, commit, changed_files, changed_methods,
                   changed_locators, tests_to_run, mapped_tests, seed, handed, ran,
                   saved, exit_code, ended_by, run_no, prev_selection, run_result, scanvars, runvars, fastvars>>

\* Line 462, the condition false.
SkipOracle ==
    /\ pc = "selected"
    /\ ~OracleWanted(tests_to_run)
    /\ pc' = "merged"
    /\ UNCHANGED <<repo_tests, commit, changed_files, changed_methods,
                   changed_locators, tests_to_run, oracle_called, oracle_reply, ai_suggested,
                   mapped_tests, seed, handed, ran, saved, exit_code, ended_by, run_no,
                   prev_selection, run_result, scanvars, runvars, fastvars>>

\* Lines 466-470: the mapped suggestions replace a list of more than 10 entries
\* and extend any other.
Merge(tests, mapped) == IF Len(tests) > TooMany THEN mapped ELSE tests \o mapped

\* MapSuggestions without the test "if ai_suggested" of line 465.
MapSuggestionsUnguarded ==
    /\ pc = "asked"
    /\ IF TRUE
       THEN LET mapped == MapAll(ai_suggested, repo_tests)
            IN  \E sd \in Seeds :
                    /\ seed' = sd
                    /\ mapped_tests' = ListOfSet(mapped, sd)
                    /\ tests_to_run' = Merge(tests_to_run, mapped_tests')
       ELSE UNCHANGED <<seed, mapped_tests, tests_to_run>>
    /\ pc' = "merged"
    /\ UNCHANGED <<repo_tests, commit, changed_files, changed_methods,
                   changed_locators, oracle_called, oracle_reply, ai_suggested, handed, ran, saved,
                   exit_code, ended_by, run_no, prev_selection, run_result, scanvars, runvars, fastvars>>

\* Lines 464-471.
MapSuggestions ==
    /\ pc = "asked"
    /\ IF ai_suggested # <<>>
       THEN LET mapped == MapAll(ai_suggested, repo_tests)
            IN  \E sd \in Seeds :
                    /\ seed' = sd
                    /\ mapped_tests' = ListOfSet(mapped, sd)
                    /\ tests_to_run' = Merge(tests_to_run, mapped_tests')
       ELSE UNCHANGED <<seed, mapped_tests, tests_to_run>>
    /\ pc' = "merged"
    /\ UNCHANGED <<repo_tests, commit, changed_files, changed_methods,
                   changed_locators, oracle_called, oracle_reply, ai_suggested, handed, ran, saved,
                   exit_code, ended_by, run_no, prev_selection, run_result, scanvars, runvars, fastvars>>

\* Deduplicate without the set: tests_to_run[:8].
DeduplicateWithoutSet ==
    /\ pc = "merged"
    /\ \E sd \in Seeds :
           /\ seed' = sd
           /\ tests_to_run' = Take(tests_to_run, SelectionCap)
    /\ pc' = "final"
    /\ UNCHANGED <<repo_tests, commit, changed_files, changed_methods,
                   changed_locators, oracle_called, oracle_reply, ai_suggested,
                   mapped_tests, handed, ran, saved, exit_code, ended_by, run_no,
                   prev_selection, run_result, scanvars, runvars, fastvars>>

\* Line 474: tests_to_run = list(set(tests_to_run))[:8]
Deduplicate ==
    /\ pc = "merged"
    /\ \E sd \in Seeds :
           /\ seed' = sd
           /\ tests_to_run' = Take(ListOfSet(tests_to_run, sd), SelectionCap)
    /\ pc' = "final"
    /\ UNCHANGED <<repo_tests, commit, changed_files, changed_methods,
                   changed_locators, oracle_called, oracle_reply, ai_suggested, mapped_tests, handed,
                   ran, saved, exit_code, ended_by, run_no, prev_selection, run_result, scanvars, runvars, fastvars>>

\* Lines 476-485: the selection runs, the history is saved, exit 0 or 1.
RunSelection ==
    /\ pc = "final"
    /\ tests_to_run # <<>>
    /\ handed' = tests_to_run
    /\ ran' = TRUE
    /\ saved' = TRUE
    /\ \E success \in BOOLEAN :
           /\ run_result' = IF success THEN "passed" ELSE "failed"
           /\ exit_code' = IF success THEN 0 ELSE FailureStatus
           /\ ended_by' = "exit"
    /\ pc' = "done"
    /\ UNCHANGED <<repo_tests, commit, changed_files, changed_methods,
                   changed_locators, tests_to_run, oracle_called, oracle_reply, ai_suggested,
                   mapped_tests, seed, run_no, prev_selection, scanvars, runvars, fastvars>>

\* Lines 486-489: nothing selected: the history is saved, exit(0).
NothingSelected ==
    /\ pc = "final"
    /\ tests_to_run = <<>>
    /\ saved' = TRUE
    /\ exit_code' = 0
    /\ ended_by' = "exit"
    /\ pc' = "done"
    /\ UNCHANGED <<repo_tests, commit, changed_files, changed_methods,
                   changed_locators, tests_to_run, oracle_called, oracle_reply, ai_suggested,
                   mapped_tests, seed, handed, ran, run_no, prev_selection, run_result,
                   scanvars, runvars, fastvars>>

\* The script is invoked a second time on the same commit and corpus, in a new
\* interpreter.
Rerun ==
    /\ pc = "done"
    /\ run_no = 1
    /\ run_no' = 2
    /\ prev_selection' = tests_to_run
    /\ pc' = "start"
    /\ changed_files' = <<>>
    /\ changed_methods' = {}
    /\ changed_locators' = {}
    /\ tests_to_run' = <<>>
    /\ oracle_called' = FALSE
    /\ oracle_reply' = "none"
    /\ ai_suggested' = <<>>
    /\ mapped_tests' = <<>>
    /\ seed' = -1
    /\ handed' = <<>>
    /\ ran' = FALSE
    /\ run_result' = "none"
    /\ saved' = FALSE
    /\ exit_code' = -1
    /\ ended_by' = "none"
    /\ UNCHANGED <<repo_tests, commit, scanvars, runvars, fastvars>>

PipelineNext ==
    \/ GetChangedFiles
    \/ SmokeTest
    \/ NoTestFiles
    \/ Analyse
    \/ StaticSelect
    \/ AskOracle
    \/ SkipOracle
    \/ MapSuggestions
    \/ Deduplicate
    \/ RunSelection
    \/ NothingSelected

Init == PipelineInit

Next == PipelineNext

Spec == Init /\ [][Next]_vars

(***************************************************************************)
(* tests/ai_test_runner_full.py, the __main__ block.                       *)
(***************************************************************************)
\* Line 110: changed_files = get_changed_files()
FullGetChangedFiles ==
    /\ pc = "start"
    /\ \/ changed_files' = CommitFiles(commit)
       \/ changed_files' = <<>>
    /\ pc' = "full_changed"
    /\ UNCHANGED <<repo_tests, commit, changed_methods, changed_locators,
                   tests_to_run, oracle_called, oracle_reply, ai_suggested, mapped_tests, seed,
                   handed, ran, run_result, saved, exit_code, ended_by, run_no,
                   prev_selection, scanvars, runvars, fastvars>>

\* Lines 111-113: no changed file: exit(0).
FullNoChanges ==
    /\ pc = "full_changed"
    /\ changed_files = <<>>
    /\ exit_code' = 0
    /\ ended_by' = "exit"
    /\ pc' = "done"
    /\ UNCHANGED <<repo_tests, commit, changed_files, changed_methods,
                   changed_locators, tests_to_run, oracle_called, oracle_reply, ai_suggested,
                   mapped_tests, seed, handed, ran, run_result, saved, run_no,
                   prev_selection, scanvars, runvars, fastvars>>

\* Lines 115-118: no test file: exit(0).
FullNoTestFiles ==
    /\ pc = "full_changed"
    /\ changed_files # <<>>
    /\ repo_tests = <<>>
    /\ exit_code' = 0
    /\ ended_by' = "exit"
    /\ pc' = "done"
    /\ UNCHANGED <<repo_tests, commit, changed_files, changed_methods,
                   changed_locators, tests_to_run, oracle_called, oracle_reply, ai_suggested,
                   mapped_tests, seed, handed, ran, run_result, saved, run_no,
                   prev_selection, scanvars, runvars, fastvars>>

\* Lines 121-124: tests_to_run = ask_ai_for_tests(...): the stripped non-empty
\* lines of the response, or [] when the request fails.
FullAskAi ==
    /\ pc = "full_changed"
    /\ changed_files # <<>>
    /\ repo_tests # <<>>
    /\ oracle_called' = TRUE
    /\ \/ \E text \in OracleTexts :
              /\ oracle_reply' = "text"
              /\ tests_to_run' = StrippedLines(text)
       \/ \E kind \in OracleFailures :
              /\ oracle_reply' = kind
              /\ tests_to_run' = <<>>
    /\ pc' = "full_asked"
    /\ UNCHANGED <<repo_tests, commit, changed_files, changed_methods,
                   changed_locators, ai_suggested, mapped_tests, seed, handed, ran,
                   run_result, saved, exit_code, ended_by, run_no, prev_selection, scanvars, runvars, fastvars>>

\* Lines 126-128: os.system("pytest " + " ".join(tests_to_run)); the script then
\* ends, with status 0 whatever pytest returned.
FullRunPytest ==
    /\ pc = "full_asked"
    /\ tests_to_run # <<>>
    /\ handed' = tests_to_run
    /\ ran' = TRUE
    /\ run_result' \in {"passed", "failed"}
    /\ exit_code' = 0
    /\ ended_by' = "exit"
    /\ pc' = "done"
    /\ UNCHANGED <<repo_tests, commit, changed_files, changed_methods,
                   changed_locators, tests_to_run, oracle_called, oracle_reply, ai_suggested,
                   mapped_tests, seed, saved, run_no, prev_selection, scanvars, runvars, fastvars>>

\* Lines 129-130: nothing selected; the script ends.
FullNothingSelected ==
    /\ pc = "full_asked"
    /\ tests_to_run = <<>>
    /\ exit_code' = 0
    /\ ended_by' = "exit"
    /\ pc' = "done"
    /\ UNCHANGED <<repo_tests, commit, changed_files, changed_methods,
                   changed_locators, tests_to_run, oracle_called, oracle_reply, ai_suggested,
                   mapped_tests, seed, handed, ran, run_result, saved, run_no,
                   prev_selection, scanvars, runvars, fastvars>>

FullNext ==
    \/ FullGetChangedFiles
    \/ FullNoChanges
    \/ FullNoTestFiles
    \/ FullAskAi
    \/ FullRunPytest
    \/ FullNothingSelected

SpecFull == PipelineInit /\ [][FullNext]_vars

(***************************************************************************)
(* get_changed_methods, the loop over the lines of one file's diff.        *)
(***************************************************************************)
\* The lines a hunk may hold: a header that shows "def submit_order(", one that
\* lies in submit_order without showing it, one outside any function; a
\* context def line, a context line, an added and a removed line, an added and
\* a removed def line, an empty line.
HunkHeaders ==
    { Line("@", "def", SubmitOrder), Line("@", "stmt", SubmitOrder),
      Line("@", "stmt", NoName) }

HunkLines ==
    HunkHeaders \cup
    { Line(" ", "def", ClickSubmit), Line(" ", "stmt", NoName),
      Line("+", "stmt", NoName), Line("-", "stmt", NoName),
      Line("+", "def", LegacyHelper), Line("-", "def", LegacyHelper),
      Line("", "stmt", NoName) }

RECURSIVE Hunks(_)
Hunks(k) ==
    IF k = 1 THEN { <<h>> : h \in HunkHeaders }
    ELSE Hunks(k - 1) \cup { Append(t, l) : t \in { u \in Hunks(k - 1) : Len(u) = k - 1 },
                                              l \in HunkLines }

\* "git diff HEAD~1 -- path" of a Python file whose functions' bodies reach to
\* the next def line or to the end of the hunk.
DiffTexts == { DiffHeader \o h : h \in Hunks(MaxDiffLines) }

DiffInit ==
    /\ pc = "scan_methods"
    /\ MainAtRest
    /\ changed_methods = {}
    /\ changed_locators = {}
    /\ diff_output \in DiffTexts
    /\ line_no = 1
    /\ current_method = NoName
    /\ file_lines = <<>>
    /\ impacted_methods = {}
    /\ CallsAtRest
    /\ RunAtRest
    /\ FastAtRest

\* Lines 91-101: one iteration of "for line in diff_output.splitlines()".
MethodsLoopStep ==
    /\ pc = "scan_methods"
    /\ line_no <= Len(diff_output)
    /\ LET st == MethodsStep([cur |-> current_method, changed |-> changed_methods],
                             diff_output[line_no])
       IN  /\ current_method' = st.cur
           /\ changed_methods' = st.changed
    /\ line_no' = line_no + 1
    /\ UNCHANGED <<pc, mainvars, changed_locators, diff_output, file_lines,
                   impacted_methods, callvars, runvars, fastvars>>

\* Lines 103-104: the loop is over, the set is returned.
MethodsLoopEnd ==
    /\ pc = "scan_methods"
    /\ line_no > Len(diff_output)
    /\ pc' = "scanned"
    /\ UNCHANGED <<mainvars, changed_methods, changed_locators, scanvars, runvars, fastvars>>

DiffNext == MethodsLoopStep \/ MethodsLoopEnd

SpecDiff == DiffInit /\ [][DiffNext]_vars

\* The function whose body line i of the diff lies in: the one of the nearest
\* def line or hunk header before it.
Enclosing(diff, i) ==
    LET marks == { j \in 1..(i - 1) : diff[j].kind = "def" \/ diff[j].mark = "@" }
        last == CHOOSE j \in marks : \A k \in marks : k <= j
    IN  IF marks = {} THEN [name |-> NoName, signature |-> FALSE]
        ELSE [name |-> diff[last].name, signature |-> diff[last].mark \in {"+", "-"}]

\* The functions with a line added or removed inside the body, the signature
\* line unchanged.
BodyChanged(diff) ==
    { Enclosing(diff, i).name :
        i \in { j \in 1..Len(diff) :
                  /\ diff[j].mark \in {"+", "-"}
                  /\ diff[j].kind = "stmt"
                  /\ Enclosing(diff, j).name # NoName
                  /\ ~Enclosing(diff, j).signature } }

(***************************************************************************)
(* get_changed_methods and get_changed_locators called three times: on the *)
(* file with diff d, on the files with diffs a and d, and on d again.      *)
(***************************************************************************)
\* The lines of the texts under analysis: a hunk header, a context def line, a
\* context line, an added line, an added locator assignment, an added def line.
CallLines ==
    { Line("@", "stmt", NoName), Line(" ", "def", ClickSubmit),
      Line(" ", "stmt", NoName), Line("+", "stmt", NoName),
      Line("+", "assign", NewButtonLocator), Line("+", "def", LegacyHelper) }

\* Every text of up to k of these lines: what "git diff" prints, and any other
\* text that run_git_cmd may return.
RECURSIVE CallTexts(_)
CallTexts(k) ==
    IF k = 0 THEN { <<>> }
    ELSE CallTexts(k - 1) \cup { Append(t, l) : t \in { u \in CallTexts(k - 1) : Len(u) = k - 1 },
                                                  l \in CallLines }

\* The diffs of the earlier file: one that ends inside legacy_helper with no
\* line of it changed, one with a changed body line and a changed locator, and
\* the empty output of a failed git command.
EarlierTexts ==
    { DiffHeader \o << Line("@", "stmt", NoName), Line("+", "stmt", NoName),
                       Line(" ", "def", LegacyHelper), Line(" ", "stmt", NoName) >>,
      BodyEdit(SubmitOrder) \o << Line("-", "assign", OldNewButtonLocator) >>,
      <<>> }

\* The diff texts of the files that the n-th call is given.
CallFiles(n) ==
    IF n = 2 THEN <<extract_in.a, extract_in.d>> ELSE <<extract_in.d>>

CallsInit ==
    /\ pc = "methods_files"
    /\ MainAtRest
    /\ changed_methods = {}
    /\ changed_locators = {}
    /\ diff_output = <<>>
    /\ file_lines = <<>>
    /\ line_no = 0
    /\ current_method = NoName
    /\ impacted_methods = {}
    /\ extract_in \in [a : EarlierTexts, d : CallTexts(MaxDiffLines - 1)]
    /\ pending = <<extract_in.d>>
    /\ call_no = 1
    /\ first_result = [methods |-> {}, locators |-> {}]
    /\ RunAtRest
    /\ FastAtRest

\* MethodsNextFile without the statement of line 90.
MethodsNextFileKeepingMethod ==
    /\ pc = "methods_files"
    /\ pending # <<>>
    /\ pending' = Tail(pending)
    /\ IF Head(pending) = <<>>
       THEN UNCHANGED <<pc, diff_output, line_no, current_method>>
       ELSE /\ diff_output' = Head(pending)
            /\ line_no' = 1
            /\ UNCHANGED current_method
            /\ pc' = "methods_lines"
    /\ UNCHANGED <<mainvars, changed_methods, changed_locators, file_lines,
                   impacted_methods, extract_in, call_no, first_result, runvars,
                   fastvars>>

\* Lines 82-90: the next file of get_changed_methods: skipped when its diff is
\* empty, and current_method = None before its lines are read.
MethodsNextFile ==
    /\ pc = "methods_files"
    /\ pending # <<>>
    /\ pending' = Tail(pending)
    /\ IF Head(pending) = <<>>
       THEN UNCHANGED <<pc, diff_output, line_no, current_method>>
       ELSE /\ diff_output' = Head(pending)
            /\ line_no' = 1
            /\ current_method' = NoName
            /\ pc' = "methods_lines"
    /\ UNCHANGED <<mainvars, changed_methods, changed_locators, file_lines,
                   impacted_methods, extract_in, call_no, first_result, runvars,
                   fastvars>>

\* Lines 91-101: one line of the file's diff.
MethodsLine ==
    /\ pc = "methods_lines"
    /\ line_no <= Len(diff_output)
    /\ LET st == MethodsStep([cur |-> current_method, changed |-> changed_methods],
                             diff_output[line_no])
       IN  /\ current_method' = st.cur
           /\ changed_methods' = st.changed
    /\ line_no' = line_no + 1
    /\ UNCHANGED <<pc, mainvars, changed_locators, diff_output, file_lines,
                   impacted_methods, callvars, runvars, fastvars>>

\* The lines of the file's diff are read; current_method keeps its value.
MethodsFileEnd ==
    /\ pc = "methods_lines"
    /\ line_no > Len(diff_output)
    /\ diff_output' = <<>>
    /\ line_no' = 0
    /\ pc' = "methods_files"
    /\ UNCHANGED <<mainvars, changed_methods, changed_locators, file_lines,
                   current_method, impacted_methods, callvars, runvars, fastvars>>

\* Lines 103-104 and 110-111: get_changed_methods returns its set, and
\* get_changed_locators begins with an empty set on the same files.
MethodsReturn ==
    /\ pc = "methods_files"
    /\ pending = <<>>
    /\ changed_locators' = {}
    /\ pending' = CallFiles(call_no)
    /\ pc' = "locators_files"
    /\ UNCHANGED <<mainvars, changed_methods, diff_output, file_lines, line_no,
                   current_method, impacted_methods, extract_in, call_no,
                   first_result, runvars, fastvars>>

\* Lines 112-123: the next file of get_changed_locators, all its lines.
LocatorsFile ==
    /\ pc = "locators_files"
    /\ pending # <<>>
    /\ changed_locators' = changed_locators \cup DiffLocators(Head(pending))
    /\ pending' = Tail(pending)
    /\ UNCHANGED <<pc, mainvars, changed_methods, diff_output, file_lines, line_no,
                   current_method, impacted_methods, extract_in, call_no,
                   first_result, runvars, fastvars>>

\* Lines 125-126: get_changed_locators returns its set.
LocatorsReturn ==
    /\ pc = "locators_files"
    /\ pending = <<>>
    /\ pc' = "returned"
    /\ UNCHANGED <<mainvars, changed_methods, changed_locators, scanvars, runvars,
                   fastvars>>

\* Line 81: the next call of get_changed_methods begins with an empty set; what
\* the first call returned is kept for comparison.
NextCall ==
    /\ pc = "returned"
    /\ call_no < 3
    /\ call_no' = call_no + 1
    /\ first_result' = IF call_no = 1
                       THEN [methods |-> changed_methods, locators |-> changed_locators]
                       ELSE first_result
    /\ changed_methods' = {}
    /\ pending' = CallFiles(call_no + 1)
    /\ pc' = "methods_files"
    /\ UNCHANGED <<mainvars, changed_locators, diff_output, file_lines, line_no,
                   current_method, impacted_methods, extract_in, runvars, fastvars>>

CallsNext ==
    \/ MethodsNextFile
    \/ MethodsLine
    \/ MethodsFileEnd
    \/ MethodsReturn
    \/ LocatorsFile
    \/ LocatorsReturn
    \/ NextCall

SpecCalls == CallsInit /\ [][CallsNext]_vars

(***************************************************************************)
(* map_locators_to_methods, the loop over the lines of one file.           *)
(***************************************************************************)
\* The lines a page object may hold: two def lines, a body line that uses the
\* locator, one that uses no locator, one that uses a locator whose name
\* contains the other's, the locator's assignment at class level and at module
\* level.  Class members are indented by one level, method bodies by two.
PageLineKinds ==
    { SourceLine("def", InitFn, 1, {}, {}),
      SourceLine("def", ClickSubmit, 1, {}, {}),
      SourceLine("code", NoName, 2, {NewButtonLocator}, {}),
      SourceLine("code", NoName, 2, {}, {}),
      SourceLine("code", NoName, 2, {OldNewButtonLocator}, {}),
      SourceLine("code", NoName, 1, {NewButtonLocator}, {}),
      SourceLine("code", NoName, 0, {NewButtonLocator}, {}) }

RECURSIVE PageTexts(_)
PageTexts(k) ==
    IF k = 0 THEN { <<>> }
    ELSE PageTexts(k - 1) \cup { Append(t, l) : t \in { u \in PageTexts(k - 1) : Len(u) = k - 1 },
                                                  l \in PageLineKinds }

\* A body line follows a def line or another body line.
WellIndented(lines) ==
    \A i \in 1..Len(lines) :
        lines[i].indent = 2 => i > 1 /\ (lines[i - 1].kind = "def" \/ lines[i - 1].indent = 2)

LocInit ==
    /\ pc = "scan_locators"
    /\ MainAtRest
    /\ changed_methods = {}
    /\ changed_locators \in { {NewButtonLocator}, {OldNewButtonLocator} }
    /\ file_lines \in { t \in PageTexts(MaxFileLines) : WellIndented(t) }
    /\ line_no = 1
    /\ current_method = NoName
    /\ impacted_methods = {}
    /\ diff_output = <<>>
    /\ CallsAtRest
    /\ RunAtRest
    /\ FastAtRest

\* Lines 134-141: one iteration of "for line in f".
LocatorsLoopStep ==
    /\ pc = "scan_locators"
    /\ line_no <= Len(file_lines)
    /\ LET st == LocatorsStep([cur |-> current_method, impacted |-> impacted_methods],
                              file_lines[line_no], changed_locators)
       IN  /\ current_method' = st.cur
           /\ impacted_methods' = st.impacted
    /\ line_no' = line_no + 1
    /\ UNCHANGED <<pc, mainvars, changed_methods, changed_locators, diff_output,
                   file_lines, callvars, runvars, fastvars>>

\* Line 145: return impacted_methods.
LocatorsLoopEnd ==
    /\ pc = "scan_locators"
    /\ line_no > Len(file_lines)
    /\ pc' = "scanned"
    /\ UNCHANGED <<mainvars, changed_methods, changed_locators, scanvars, runvars, fastvars>>

LocNext == LocatorsLoopStep \/ LocatorsLoopEnd

SpecLoc == LocInit /\ [][LocNext]_vars

\* Some line of a method's body references one of the locators.
BodyReferences(lines, locators) ==
    \E i \in 1..Len(lines) : lines[i].indent = 2 /\ lines[i].idents \cap locators # {}

(***************************************************************************)
(* run_tests_intelligently: the two critical tests one after the other,    *)
(* the others on a pool of worker threads; each test by                    *)
(* run_test_with_monitoring, its result recorded by update_test_metrics.   *)
(* Time is not part of this model: every execution time is 0.             *)
(***************************************************************************)
\* What one attempt (one "pytest" subprocess) can end as: return code 0, another
\* return code, subprocess.TimeoutExpired, another exception.
Outcomes == {"pass", "fail", "timeout", "error"}

LastN(xs, k) == IF Len(xs) > k THEN SubSeq(xs, Len(xs) - k + 1, Len(xs)) ELSE xs

\* Lines 283-289: the record of a test that has none.
NewRecord ==
    [execution_times |-> <<>>, success_rate |-> <<>>, total_runs |-> 0,
     recent_failures |-> 0]

\* UpdateTestMetrics with the failures counted over the whole list.
UpdateTestMetricsCountingAll(h, test_file, execution_time, ok) ==
    LET old == IF test_file \in DOMAIN h THEN h[test_file] ELSE NewRecord
        times == Append(old.execution_times, execution_time)
        rates == Append(old.success_rate, ok)
        long == Len(times) > HistoryKeep
        kept_times == IF long THEN LastN(times, HistoryKeep) ELSE times
        kept_rates == IF long THEN LastN(rates, HistoryKeep) ELSE rates
    IN  (test_file :> [execution_times |-> kept_times,
                       success_rate |-> kept_rates,
                       total_runs |-> old.total_runs + 1,
                       recent_failures |->
                           Cardinality({ i \in 1..Len(kept_rates) : ~kept_rates[i] })])
        @@ h

\* update_test_metrics(test_file, execution_time, success, history): both lists
\* are cut to their last 20 entries when execution_times has more than 20.
UpdateTestMetrics(h, test_file, execution_time, ok) ==
    LET old == IF test_file \in DOMAIN h THEN h[test_file] ELSE NewRecord
        times == Append(old.execution_times, execution_time)
        rates == Append(old.success_rate, ok)
        long == Len(times) > HistoryKeep
        kept_times == IF long THEN LastN(times, HistoryKeep) ELSE times
        kept_rates == IF long THEN LastN(rates, HistoryKeep) ELSE rates
        recent == LastN(kept_rates, RecentWindow)
    IN  (test_file :> [execution_times |-> kept_times,
                       success_rate |-> kept_rates,
                       total_runs |-> old.total_runs + 1,
                       recent_failures |-> Cardinality({ i \in 1..Len(recent) : ~recent[i] })])
        @@ h

\* ReturnsAfter with the test for a passed attempt left out.
ReturnsAfterLastOnly(log) == Len(log) = RETRY_ATTEMPTS

\* The loop of run_test_with_monitoring returns after this attempt: it passed,
\* or it was the last one.
ReturnsAfter(log) == log[Len(log)] = "pass" \/ Len(log) = RETRY_ATTEMPTS

\* The history maps a call may start with: an empty one (no history file), and
\* one with a record of one earlier, failed run of the first test file.
Histories ==
    { <<>>,
      TestPath(1) :> [execution_times |-> <<0>>, success_rate |-> <<FALSE>>,
                      total_runs |-> 1, recent_failures |-> 1] }

Critical == 1..(IF Len(prioritized_tests) < CriticalCount
                THEN Len(prioritized_tests) ELSE CriticalCount)

Remaining == (CriticalCount + 1)..Len(prioritized_tests)

\* The outcomes under analysis for an attempt of the test at position i: all of
\* them for a critical test, a return code for a test on the pool.
OutcomesAt(i) == IF i <= CriticalCount THEN Outcomes ELSE {"pass", "fail"}

RunInit ==
    /\ pc = "critical"
    /\ MainAtRest
    /\ changed_methods = {}
    /\ changed_locators = {}
    /\ ScanAtRest
    /\ prioritized_tests \in { Corpus(n) : n \in 0..MaxRunTests }
    /\ status = [i \in 1..Len(prioritized_tests) |-> "waiting"]
    /\ attempts = [i \in 1..Len(prioritized_tests) |-> <<>>]
    /\ test_success = [i \in 1..Len(prioritized_tests) |-> FALSE]
    /\ history \in Histories
    /\ history0 = history
    /\ calls = <<>>
    /\ PoolAtRest
    /\ all_success = TRUE
    /\ FastAtRest

\* Lines 347-348: nothing to run, return True.
RunNothing ==
    /\ pc = "critical"
    /\ prioritized_tests = <<>>
    /\ pc' = "run_done"
    /\ UNCHANGED <<mainvars, changed_methods, changed_locators, scanvars, runvars, fastvars>>

\* Lines 374-375: the next critical test starts when the one before it is settled.
CriticalStart(i) ==
    /\ pc = "critical"
    /\ i \in Critical
    /\ status[i] = "waiting"
    /\ \A j \in 1..(i - 1) : status[j] = "settled"
    /\ status' = [status EXCEPT ![i] = "running"]
    /\ UNCHANGED <<pc, mainvars, changed_methods, changed_locators, scanvars, fastvars,
                   prioritized_tests, attempts, test_success, history, history0, calls, poolvars,
                   all_success>>

\* Lines 310-340: one attempt of run_test_with_monitoring for test i ends; the
\* call returns the attempt's success, or goes on to the next attempt.
Attempt(i) ==
    /\ pc \in {"critical", "pool", "shutdown"}
    /\ i \in 1..Len(prioritized_tests)
    /\ status[i] = "running"
    /\ \E outcome \in OutcomesAt(i) :
           LET log == Append(attempts[i], outcome)
           IN  /\ attempts' = [attempts EXCEPT ![i] = log]
               /\ IF ReturnsAfter(log)
                  THEN /\ status' = [status EXCEPT ![i] = "returned"]
                       /\ test_success' = [test_success EXCEPT ![i] = (outcome = "pass")]
                  ELSE UNCHANGED <<status, test_success>>
    /\ UNCHANGED <<pc, mainvars, changed_methods, changed_locators, scanvars, fastvars,
                   prioritized_tests, history, history0, calls, poolvars, all_success>>

\* Lines 376-380: the coordinating thread records a critical test's result.
CriticalCollect(i) ==
    /\ pc = "critical"
    /\ i \in Critical
    /\ status[i] = "returned"
    /\ history' = UpdateTestMetrics(history, prioritized_tests[i], 0, test_success[i])
    /\ all_success' = (all_success /\ test_success[i])
    /\ status' = [status EXCEPT ![i] = "settled"]
    /\ UNCHANGED <<pc, mainvars, changed_methods, changed_locators, scanvars, fastvars,
                   prioritized_tests, attempts, test_success, history0, calls, poolvars>>

\* SubmitRemaining without the wait for the critical tests.
SubmitRemainingEarly ==
    /\ pc = "critical"
    /\ Remaining # {}
    /\ pc' = "pool"
    /\ UNCHANGED <<mainvars, changed_methods, changed_locators, scanvars, runvars, fastvars>>

\* Lines 383-386: the critical tests are settled; the others are submitted.
SubmitRemaining ==
    /\ pc = "critical"
    /\ Remaining # {}
    /\ \A j \in Critical : status[j] = "settled"
    /\ pc' = "pool"
    /\ UNCHANGED <<mainvars, changed_methods, changed_locators, scanvars, runvars, fastvars>>

\* A worker thread of the pool takes a submitted test, also while the executor
\* is shutting down with wait=True.
WorkerStart(i) ==
    /\ pc \in {"pool", "shutdown"}
    /\ i \in Remaining
    /\ status[i] = "waiting"
    /\ Cardinality({ j \in Remaining : status[j] = "running" })
           < (IF Cardinality(Remaining) < MAX_PARALLEL_TESTS
              THEN Cardinality(Remaining) ELSE MAX_PARALLEL_TESTS)
    /\ status' = [status EXCEPT ![i] = "running"]
    /\ UNCHANGED <<pc, mainvars, changed_methods, changed_locators, scanvars, fastvars,
                   prioritized_tests, attempts, test_success, history, history0, calls, poolvars,
                   all_success>>

\* PoolCollect with all_success overwritten by the result just collected.
PoolCollectLastWins(i) ==
    /\ pc = "pool"
    /\ i \in Remaining
    /\ status[i] = "returned"
    /\ history' = UpdateTestMetrics(history, prioritized_tests[i], 0, test_success[i])
    /\ all_success' = test_success[i]
    /\ status' = [status EXCEPT ![i] = "settled"]
    /\ UNCHANGED <<pc, mainvars, changed_methods, changed_locators, scanvars, fastvars,
                   prioritized_tests, attempts, test_success, history0, calls, poolvars>>

\* Lines 388-402: the coordinating thread takes a finished future from
\* as_completed and records its result.
PoolCollect(i) ==
    /\ pc = "pool"
    /\ i \in Remaining
    /\ status[i] = "returned"
    /\ history' = UpdateTestMetrics(history, prioritized_tests[i], 0, test_success[i])
    /\ all_success' = (all_success /\ test_success[i])
    /\ status' = [status EXCEPT ![i] = "settled"]
    /\ UNCHANGED <<pc, mainvars, changed_methods, changed_locators, scanvars, fastvars,
                   prioritized_tests, attempts, test_success, history0, calls, poolvars>>

\* RunReturn that also returns as soon as a test has failed.
RunReturnFailFast ==
    /\ pc \in {"critical", "pool"}
    /\ prioritized_tests # <<>>
    /\ \/ \A j \in 1..Len(prioritized_tests) : status[j] = "settled"
       \/ ~all_success
    /\ pc' = "run_done"
    /\ UNCHANGED <<mainvars, changed_methods, changed_locators, scanvars, runvars, fastvars>>

\* Line 404: return all_success.
RunReturn ==
    /\ pc \in {"critical", "pool"}
    /\ prioritized_tests # <<>>
    /\ \A j \in 1..Len(prioritized_tests) : status[j] = "settled"
    /\ pc' = "run_done"
    /\ UNCHANGED <<mainvars, changed_methods, changed_locators, scanvars, runvars, fastvars>>

RunNext ==
    \/ RunNothing
    \/ \E i \in 1..MaxRunTests : CriticalStart(i)
    \/ \E i \in 1..MaxRunTests : Attempt(i)
    \/ \E i \in 1..MaxRunTests : CriticalCollect(i)
    \/ SubmitRemaining
    \/ \E i \in 1..MaxRunTests : WorkerStart(i)
    \/ \E i \in 1..MaxRunTests : PoolCollect(i)
    \/ RunReturn

SpecRun == RunInit /\ [][RunNext]_vars

(***************************************************************************)
(* ai_test_runner_fast.py: main, with its cache file, run once or twice on *)
(* the same commit.                                                        *)
(***************************************************************************)
\* Path(p).as_posix() on the paths under analysis: the empty path is ".", a
\* leading "./" is dropped.
RECURSIVE AsPosix(_)
AsPosix(p) ==
    IF p = <<>> THEN <<".">>
    ELSE IF Len(p) >= 2 /\ p[1] = "." /\ p[2] = "/" THEN AsPosix(SubSeq(p, 3, Len(p)))
    ELSE p

\* Lines 36-38: the names followed by "(" in the diff text, the def lines of the
\* hunk headers included.
FastMethods(diff) == { diff[i].name : i \in { j \in 1..Len(diff) : diff[j].kind = "def" } }

\* Lines 41-43: the upper-case names that are assigned, and ".py" from the paths
\* of the file header.
FastLocators(diff) ==
    { diff[i].name : i \in { j \in 1..Len(diff) :
                               /\ diff[j].kind = "assign"
                               /\ \A k \in 1..Len(diff[j].name) : diff[j].name[k] \in UpperTokens } }
    \cup (IF diff = <<>> THEN {} ELSE { <<".py">> })

\* extract_methods_and_locators over the diffs of the changed Python files.
FastExtract(c) ==
    LET files == SelectSeq(CommitFiles(c), EndsWithPy)
        diffs == { FileDiff(c, files[i]) : i \in 1..Len(files) }
    IN  [methods |-> UNION { FastMethods(d) : d \in diffs },
         locators |-> UNION { FastLocators(d) : d \in diffs }]

\* local_match_tests: a method's or a locator's name occurs in the file's text.
\* "m in content" on names: m is a run of the tokens of a name of the file, or
\* a test function's name whose number is continued by one more digit.
NameIn(m, n) ==
    \/ IsSubSeq(m, n)
    \/ \E j \in 10..(NumTests + 1) : n = TestFn(j) /\ m = TestFn(j \div 10)

LocalMatchTests(methods, locators, tests) ==
    LET Names(l) == l.idents \cup l.calls \cup (IF l.kind = "def" THEN {l.name} ELSE {})
        Hit(path) ==
            \E i \in 1..Len(FileLines(path)) :
                \E n \in Names(FileLines(path)[i]) :
                    \E m \in methods \cup locators : NameIn(m, n)
    IN  { tests[i] : i \in { j \in 1..Len(tests) : Hit(tests[j]) } }

\* ai_select_tests: the lines of the response that are corpus paths, or the
\* empty set when the request fails.
AiSelectTests(output, tests) ==
    { AsPosix(Strip(output[i])) :
        i \in { j \in 1..Len(output) : InList(AsPosix(Strip(output[j])), tests) } }

\* json.dumps and json.loads on a list of paths: each path between quotes.
JsonArray(xs) == [i \in 1..Len(xs) |-> <<"\"">> \o xs[i] \o <<"\"">>]

FromJsonArray(js) == [i \in 1..Len(js) |-> SubSeq(js[i], 2, Len(js[i]) - 1)]

\* CacheHit with an empty cached selection taken for a miss.
CacheHitNonEmpty(c, hash) == hash \in DOMAIN c /\ c[hash] # <<>>

\* Line 100: commit_hash in cache
CacheHit(c, hash) == hash \in DOMAIN c

\* Before the first run the cache file holds no commit.
FastInit == PipelineInit

\* Lines 97-102: the commit is in the cache; its selection is taken from it.
FastUseCache ==
    /\ pc = "start"
    /\ CacheHit(cache, commit)
    /\ tests_to_run' = FromJsonArray(cache[commit])
    /\ pc' = "fast_selected"
    /\ UNCHANGED <<repo_tests, commit, changed_files, changed_methods,
                   changed_locators, oracle_called, oracle_reply, ai_suggested,
                   mapped_tests, seed, handed, ran, run_result, saved, exit_code,
                   ended_by, run_no, prev_selection, scanvars, runvars, fastvars>>

\* Lines 104-113: the changed files, their diffs, the methods and locators.
FastParse ==
    /\ pc = "start"
    /\ ~CacheHit(cache, commit)
    /\ changed_files' = SelectSeq(CommitFiles(commit), EndsWithPy)
    /\ changed_methods' = FastExtract(commit).methods
    /\ changed_locators' = FastExtract(commit).locators
    /\ parsed' = TRUE
    /\ pc' = "fast_parsed"
    /\ UNCHANGED <<repo_tests, commit, tests_to_run, oracle_called, oracle_reply,
                   ai_suggested, mapped_tests, seed, handed, ran, run_result, saved,
                   exit_code, ended_by, run_no, prev_selection, scanvars, runvars,
                   cache, branchvars>>

\* Lines 115-120: the oracle's and the local selection, sorted, cached, saved.
FastSelect ==
    /\ pc = "fast_parsed"
    /\ oracle_called' = TRUE
    /\ \/ \E text \in OracleTexts :
              /\ oracle_reply' = "text"
              /\ ai_suggested' = SortedList(AiSelectTests(text, repo_tests))
       \/ \E kind \in OracleFailures :
              /\ oracle_reply' = kind
              /\ ai_suggested' = <<>>
    /\ LET local_tests == LocalMatchTests(changed_methods, changed_locators, repo_tests)
       IN  tests_to_run' = SortedList(Range(ai_suggested') \cup local_tests)
    /\ cache' = (commit :> JsonArray(tests_to_run')) @@ cache
    /\ pc' = "fast_selected"
    /\ UNCHANGED <<repo_tests, commit, changed_files, changed_methods,
                   changed_locators, mapped_tests, seed, handed, ran, run_result,
                   saved, exit_code, ended_by, run_no, prev_selection, scanvars,
                   runvars, parsed, branchvars>>

\* Lines 122-124: nothing selected; main returns.
FastNothingSelected ==
    /\ pc = "fast_selected"
    /\ tests_to_run = <<>>
    /\ exit_code' = 0
    /\ ended_by' = "exit"
    /\ pc' = "done"
    /\ UNCHANGED <<repo_tests, commit, changed_files, changed_methods,
                   changed_locators, tests_to_run, oracle_called, oracle_reply,
                   ai_suggested, mapped_tests, seed, handed, ran, run_result, saved,
                   run_no, prev_selection, scanvars, runvars, fastvars>>

\* Lines 126-127: os.system("pytest " + " ".join(tests_to_run)); main returns.
FastRunPytest ==
    /\ pc = "fast_selected"
    /\ tests_to_run # <<>>
    /\ handed' = tests_to_run
    /\ ran' = TRUE
    /\ run_result' \in {"passed", "failed"}
    /\ exit_code' = 0
    /\ ended_by' = "exit"
    /\ pc' = "done"
    /\ UNCHANGED <<repo_tests, commit, changed_files, changed_methods,
                   changed_locators, tests_to_run, oracle_called, oracle_reply,
                   ai_suggested, mapped_tests, seed, saved, run_no, prev_selection,
                   scanvars, runvars, fastvars>>

\* The script is run again at the same commit: a new process, the cache file
\* as the first run left it.
FastRerun ==
    /\ pc = "done"
    /\ run_no = 1
    /\ run_no' = 2
    /\ prev_selection' = tests_to_run
    /\ pc' = "start"
    /\ changed_files' = <<>>
    /\ changed_methods' = {}
    /\ changed_locators' = {}
    /\ tests_to_run' = <<>>
    /\ oracle_called' = FALSE
    /\ oracle_reply' = "none"
    /\ ai_suggested' = <<>>
    /\ handed' = <<>>
    /\ ran' = FALSE
    /\ run_result' = "none"
    /\ exit_code' = -1
    /\ ended_by' = "none"
    /\ parsed' = FALSE
    /\ UNCHANGED <<repo_tests, commit, mapped_tests, seed, saved, scanvars, runvars,
                   cache, branchvars>>

FastNext ==
    \/ FastUseCache
    \/ FastParse
    \/ FastSelect
    \/ FastNothingSelected
    \/ FastRunPytest
    \/ FastRerun

SpecFast == FastInit /\ [][FastNext]_vars

\* Two invocations on the same commit, for the commits that edit no test file
\* in a repository with no test file or with all of them.
TwiceInit ==
    /\ PipelineInit
    /\ commit.d = 0
    /\ Len(repo_tests) \in {0, NumTests}

TwiceNext == PipelineNext \/ Rerun

SpecTwice == TwiceInit /\ [][TwiceNext]_vars

(***************************************************************************)
(* The entry point of ai_test_runner_3 with its two handlers: the body of  *)
(* the try statement (lines 417-489) may be left at any point by a         *)
(* KeyboardInterrupt or by an exception.                                   *)
(***************************************************************************)
EntryInit ==
    /\ PipelineInit
    /\ commit.d = 0
    /\ Len(repo_tests) \in {0, NumTests}

\* The tests that run_tests_intelligently is called with next, if the body goes
\* on from here: the smoke test, or the final selection.
AboutToRun ==
    IF pc = "changed" /\ changed_files = <<>> /\ repo_tests # <<>> THEN <<repo_tests[1]>>
    ELSE IF pc = "final" THEN tests_to_run
    ELSE <<>>

\* Lines 491-494: the user interrupts the run, before or while the tests are
\* executed; the handler saves the history and calls exit(1).
Interrupt ==
    /\ pc # "done"
    /\ \E started \in (IF AboutToRun # <<>> THEN BOOLEAN ELSE {FALSE}) :
           /\ ran' = started
           /\ handed' = IF started THEN AboutToRun ELSE handed
           /\ run_result' = IF started THEN "interrupted" ELSE run_result
    /\ saved' = TRUE
    /\ exit_code' = InterruptStatus
    /\ ended_by' = "interrupt"
    /\ pc' = "done"
    /\ UNCHANGED <<repo_tests, commit, changed_files, changed_methods,
                   changed_locators, tests_to_run, oracle_called, oracle_reply,
                   ai_suggested, mapped_tests, seed, run_no, prev_selection,
                   scanvars, runvars, fastvars>>

\* Crash with the exception taken for a normal end: exit(0).
CrashSilently ==
    /\ pc # "done"
    /\ saved' = TRUE
    /\ exit_code' = 0
    /\ ended_by' = "exception"
    /\ pc' = "done"
    /\ UNCHANGED <<repo_tests, commit, changed_files, changed_methods,
                   changed_locators, tests_to_run, oracle_called, oracle_reply,
                   ai_suggested, mapped_tests, seed, handed, ran, run_result, run_no,
                   prev_selection, scanvars, runvars, fastvars>>

\* Lines 495-498: a step of the body raises an exception that no function of
\* the pipeline catches; the handler saves the history and calls exit(1).
Crash ==
    /\ pc # "done"
    /\ saved' = TRUE
    /\ exit_code' = ExceptionStatus
    /\ ended_by' = "exception"
    /\ pc' = "done"
    /\ UNCHANGED <<repo_tests, commit, changed_files, changed_methods,
                   changed_locators, tests_to_run, oracle_called, oracle_reply,
                   ai_suggested, mapped_tests, seed, handed, ran, run_result, run_no,
                   prev_selection, scanvars, runvars, fastvars>>

EntryNext ==
    \/ PipelineNext
    \/ Interrupt
    \/ Crash

SpecEntry == EntryInit /\ [][EntryNext]_vars

(***************************************************************************)
(* run_tests_intelligently as the entry point calls it: the history is     *)
(* saved after the call returns (lines 479-485), or by the handler of a    *)
(* KeyboardInterrupt raised in the coordinating thread (lines 491-494).    *)
(***************************************************************************)
\* Lines 484-485: save_test_history(test_history); exit(0 if success else 1).
SaveAndExit ==
    /\ pc = "run_done"
    /\ saved' = TRUE
    /\ exit_code' = IF all_success THEN 0 ELSE FailureStatus
    /\ ended_by' = "exit"
    /\ pc' = "done"
    /\ UNCHANGED <<repo_tests, commit, changed_files, changed_methods,
                   changed_locators, tests_to_run, oracle_called, oracle_reply,
                   ai_suggested, mapped_tests, seed, handed, ran, run_result, run_no,
                   prev_selection, scanvars, runvars, fastvars>>

\* The interrupt arrives in the sequential phase, where the coordinating thread
\* blocks in subprocess.run or time.sleep of a critical test: the call of
\* run_test_with_monitoring under way is abandoned, and the handler saves the
\* history and exits.
InterruptCritical ==
    /\ pc = "critical"
    /\ prioritized_tests # <<>>
    /\ \A i \in Critical : status[i] # "returned"
    /\ status' = [i \in 1..Len(prioritized_tests) |->
                     IF status[i] = "running" THEN "abandoned" ELSE status[i]]
    /\ saved' = TRUE
    /\ exit_code' = InterruptStatus
    /\ ended_by' = "interrupt"
    /\ pc' = "done"
    /\ UNCHANGED <<repo_tests, commit, changed_files, changed_methods,
                   changed_locators, tests_to_run, oracle_called, oracle_reply,
                   ai_suggested, mapped_tests, seed, handed, ran, run_result, run_no,
                   prev_selection, scanvars, fastvars, prioritized_tests, attempts,
                   test_success, history, history0, calls, poolvars, all_success>>

\* The interrupt arrives while the coordinating thread waits in as_completed:
\* the with statement is left through ThreadPoolExecutor.__exit__, which calls
\* shutdown(wait=True); no further result is collected.
InterruptPool ==
    /\ pc = "pool"
    /\ pc' = "shutdown"
    /\ UNCHANGED <<mainvars, changed_methods, changed_locators, scanvars, runvars, fastvars>>

\* The workers have run every submitted test; shutdown returns, the exception
\* reaches the handler, which saves the history and exits.
ShutdownDone ==
    /\ pc = "shutdown"
    /\ \A i \in Remaining : status[i] \in {"returned", "settled"}
    /\ saved' = TRUE
    /\ exit_code' = InterruptStatus
    /\ ended_by' = "interrupt"
    /\ pc' = "done"
    /\ UNCHANGED <<repo_tests, commit, changed_files, changed_methods,
                   changed_locators, tests_to_run, oracle_called, oracle_reply,
                   ai_suggested, mapped_tests, seed, handed, ran, run_result, run_no,
                   prev_selection, scanvars, runvars, fastvars>>

StopNext ==
    \/ RunNext
    \/ SaveAndExit
    \/ InterruptCritical
    \/ InterruptPool
    \/ ShutdownDone

SpecStop == RunInit /\ [][StopNext]_vars

(***************************************************************************)
(* update_test_metrics called again and again on a history that starts     *)
(* empty; the execution time of a call is its number, so that the order of *)
(* the calls can be read off the records.                                  *)
(***************************************************************************)
\* The calls made so far for one test file.
CallsFor(path) == SelectSeq(calls, LAMBDA c : c.file = path)

\* The results under analysis for the next call on the first test file: any
\* result in its first 5 and last 6 calls, and the result of the call before
\* the last in between.
ResultsOfNext ==
    LET mine == CallsFor(TestPath(1))
        n == Len(mine) + 1
    IN  IF n <= RecentWindow \/ n > MaxCalls - (RecentWindow + 1)
        THEN BOOLEAN
        ELSE { mine[n - 2].ok }

MetricsInit ==
    /\ pc = "metrics"
    /\ MainAtRest
    /\ changed_methods = {}
    /\ changed_locators = {}
    /\ ScanAtRest
    /\ RunAtRest
    /\ FastAtRest

\* One call of update_test_metrics for the first test file.
MetricsCall ==
    /\ pc = "metrics"
    /\ Len(CallsFor(TestPath(1))) < MaxCalls
    /\ \E ok \in ResultsOfNext :
           LET t == Len(calls) + 1
           IN  /\ history' = UpdateTestMetrics(history, TestPath(1), t, ok)
               /\ calls' = Append(calls, [file |-> TestPath(1), time |-> t, ok |-> ok])
    /\ UNCHANGED <<pc, mainvars, changed_methods, changed_locators, scanvars, fastvars,
                   prioritized_tests, status, attempts, test_success, history0,
                   poolvars, all_success>>

\* One call for another test file, with a failed run, between the others.
MetricsOtherCall ==
    /\ pc = "metrics"
    /\ CallsFor(TestPath(2)) = <<>>
    /\ LET t == Len(calls) + 1
       IN  /\ history' = UpdateTestMetrics(history, TestPath(2), t, FALSE)
           /\ calls' = Append(calls, [file |-> TestPath(2), time |-> t, ok |-> FALSE])
    /\ UNCHANGED <<pc, mainvars, changed_methods, changed_locators, scanvars, fastvars,
                   prioritized_tests, status, attempts, test_success, history0,
                   poolvars, all_success>>

MetricsNext == MetricsCall \/ MetricsOtherCall

SpecMetrics == MetricsInit /\ [][MetricsNext]_vars

(***************************************************************************)
(* The execution order of run_tests_intelligently: get_priority_score and  *)
(* sorted(test_files, key=get_priority_score, reverse=True).  Execution    *)
(* times are whole seconds and a score is a fraction [num, den].           *)
(***************************************************************************)
\* Line 352-353: the score of a test that has no record.
UnknownScore == 50

\* Line 360: recent_failures * 20
FailureWeight == 20

\* Line 361: min(60 / max(avg_time, 1), 30)
SpeedNum == 60

SpeedCap == 30

RECURSIVE SumOf(_)
SumOf(xs) == IF xs = <<>> THEN 0 ELSE Head(xs) + SumOf(Tail(xs))

\* get_priority_score(test_file) for a history whose records hold at least one
\* execution time: avg_time = total / n, and max(avg_time, 1) = total / n when
\* total > n.
PriorityScore(h, test_file) ==
    IF test_file \notin DOMAIN h
    THEN [num |-> UnknownScore, den |-> 1]
    ELSE LET data == h[test_file]
             total == SumOf(data.execution_times)
             n == Len(data.execution_times)
         IN  IF total <= n
             THEN [num |-> data.recent_failures * FailureWeight
                             + (IF SpeedNum < SpeedCap THEN SpeedNum ELSE SpeedCap),
                   den |-> 1]
             ELSE [num |-> data.recent_failures * FailureWeight * total
                             + (IF SpeedNum * n < SpeedCap * total
                                THEN SpeedNum * n ELSE SpeedCap * total),
                   den |-> total]

ScoreLess(a, b) == a.num * b.den < b.num * a.den

\* sorted(..., reverse=True) is stable: x goes behind the elements whose score
\* is not less than its own.
InsertByScore(h, sorted, x) ==
    LET ahead == { i \in 1..Len(sorted) :
                     ~ScoreLess(PriorityScore(h, sorted[i]), PriorityScore(h, x)) }
        k == IF ahead = {} THEN 0 ELSE CHOOSE i \in ahead : \A j \in ahead : j <= i
    IN  SubSeq(sorted, 1, k) \o <<x>> \o SubSeq(sorted, k + 1, Len(sorted))

RECURSIVE SortedByScore(_, _, _)
SortedByScore(h, sorted, xs) ==
    IF xs = <<>> THEN sorted
    ELSE SortedByScore(h, InsertByScore(h, sorted, Head(xs)), Tail(xs))

\* The runs a record under analysis comes from: one quick or one slow run that
\* passed, one quick or one slow run that failed, two slow failed runs.
PastRuns ==
    { << [time |-> 1, ok |-> TRUE] >>, << [time |-> 60, ok |-> TRUE] >>,
      << [time |-> 1, ok |-> FALSE] >>, << [time |-> 60, ok |-> FALSE] >>,
      << [time |-> 60, ok |-> FALSE], [time |-> 60, ok |-> FALSE] >> }

RECURSIVE HistoryOf(_, _, _)
\* The history after update_test_metrics was called for the runs of past[p],
\* for every path p of paths.
HistoryOf(h, past, paths) ==
    IF paths = {} THEN h
    ELSE LET p == CHOOSE q \in paths : TRUE
             runs == past[p]
             h1 == IF runs = <<>> THEN h
                   ELSE UpdateTestMetrics(h, p, runs[1].time, runs[1].ok)
             h2 == IF Len(runs) < 2 THEN h1
                   ELSE UpdateTestMetrics(h1, p, runs[2].time, runs[2].ok)
         IN  HistoryOf(h2, past, paths \ {p})

\* The selections under analysis: the first MaxRunTests - 1 test files in any
\* order, or fewer of them.
Selections ==
    LET S == { TestPath(i) : i \in 1..(MaxRunTests - 1) }
    IN  { xs \in UNION { [1..k -> S] : k \in 0..(MaxRunTests - 1) } :
            \A i, j \in 1..Len(xs) : xs[i] = xs[j] => i = j }

OrderInit ==
    /\ pc = "order"
    /\ repo_tests = <<>>
    /\ commit = [d |-> 0, showDef |-> TRUE, src |-> "none"]
    /\ changed_files = <<>>
    /\ changed_methods = {}
    /\ changed_locators = {}
    /\ tests_to_run = <<>>
    /\ oracle_called = FALSE
    /\ oracle_reply = "none"
    /\ ai_suggested = <<>>
    /\ mapped_tests = <<>>
    /\ seed = -1
    /\ handed \in Selections
    /\ ran = FALSE
    /\ run_result = "none"
    /\ saved = FALSE
    /\ exit_code = -1
    /\ ended_by = "none"
    /\ run_no = 1
    /\ prev_selection = <<>>
    /\ ScanAtRest
    /\ prioritized_tests = <<>>
    /\ status = <<>>
    /\ attempts = <<>>
    /\ test_success = <<>>
    /\ history \in { HistoryOf(<<>>, past, Range(handed)) :
                       past \in [Range(handed) -> PastRuns \cup {<<>>}] }
    /\ history0 = history
    /\ calls = <<>>
    /\ PoolAtRest
    /\ all_success = TRUE
    /\ FastAtRest

\* Lines 364-371: the execution order, the critical tests and the others.
Prioritize ==
    /\ pc = "order"
    /\ handed # <<>>
    /\ prioritized_tests' = SortedByScore(history, <<>>, handed)
    /\ status' = [i \in 1..Len(handed) |-> "waiting"]
    /\ attempts' = [i \in 1..Len(handed) |-> <<>>]
    /\ test_success' = [i \in 1..Len(handed) |-> FALSE]
    /\ pc' = "critical"
    /\ UNCHANGED <<mainvars, changed_methods, changed_locators, scanvars, fastvars,
                   history, history0, calls, poolvars, all_success>>

\* Lines 347-348: an empty list: return True.
PrioritizeNothing ==
    /\ pc = "order"
    /\ handed = <<>>
    /\ pc' = "run_done"
    /\ UNCHANGED <<mainvars, changed_methods, changed_locators, scanvars, runvars,
                   fastvars>>

OrderNext == Prioritize \/ PrioritizeNothing

SpecOrder == OrderInit /\ [][OrderNext]_vars

(***************************************************************************)
(* The remainder phase of run_tests_intelligently thread by thread: the    *)
(* executor's worker threads take the submitted tests from its queue, the  *)
(* coordinating thread takes the finished futures from as_completed and    *)
(* calls update_test_metrics.  Both critical tests have passed.            *)
(***************************************************************************)
\* PoolSize without the limit of MAX_PARALLEL_TESTS.
PoolSizeUnbounded(n) == n

\* Line 384: max_workers = min(MAX_PARALLEL_TESTS, len(remaining_tests))
PoolSize(n) == IF MAX_PARALLEL_TESTS < n THEN MAX_PARALLEL_TESTS ELSE n

\* What an attempt of a test on the pool ends as: the first of them passes or
\* fails, the others pass.
PoolOutcomes(i) == IF i = CriticalCount + 1 THEN {"pass", "fail"} ELSE {"pass"}

\* Lines 373-386: the critical tests are recorded, the executor is made and
\* every other test is submitted, in the order of the list.
PoolInit ==
    /\ pc = "pool"
    /\ MainAtRest
    /\ changed_methods = {}
    /\ changed_locators = {}
    /\ ScanAtRest
    /\ prioritized_tests \in { Corpus(n) : n \in (CriticalCount + 1)..(CriticalCount + MaxPoolTests) }
    /\ status = [i \in 1..Len(prioritized_tests) |->
                    IF i <= CriticalCount THEN "settled" ELSE "waiting"]
    /\ attempts = [i \in 1..Len(prioritized_tests) |->
                      IF i <= CriticalCount THEN <<"pass">> ELSE <<>>]
    /\ test_success = [i \in 1..Len(prioritized_tests) |-> i <= CriticalCount]
    /\ history0 = <<>>
    /\ history = UpdateTestMetrics(UpdateTestMetrics(<<>>, TestPath(1), 0, TRUE),
                                   TestPath(2), 0, TRUE)
    /\ calls = <<>>
    /\ queue = [k \in 1..(Len(prioritized_tests) - CriticalCount) |-> CriticalCount + k]
    /\ job = [w \in 1..PoolSize(Len(prioritized_tests) - CriticalCount) |-> 0]
    /\ updaters = {}
    /\ all_success = TRUE
    /\ FastAtRest

\* An idle worker thread takes the next work item of the queue and calls
\* run_test_with_monitoring; of the idle threads, which are alike, the one
\* with the lowest number takes it.
WorkerTake(w) ==
    /\ pc = "pool"
    /\ w \in DOMAIN job
    /\ job[w] = 0
    /\ \A v \in 1..(w - 1) : job[v] # 0
    /\ queue # <<>>
    /\ job' = [job EXCEPT ![w] = Head(queue)]
    /\ queue' = Tail(queue)
    /\ status' = [status EXCEPT ![Head(queue)] = "running"]
    /\ UNCHANGED <<pc, mainvars, changed_methods, changed_locators, scanvars, fastvars,
                   prioritized_tests, attempts, test_success, history, history0, calls,
                   updaters, all_success>>

\* WorkerAttempt in which the worker thread itself calls update_test_metrics
\* when its test has returned.
WorkerAttemptRecording(w) ==
    /\ pc = "pool"
    /\ w \in DOMAIN job
    /\ job[w] # 0
    /\ \E outcome \in PoolOutcomes(job[w]) :
           LET i == job[w]
               log == Append(attempts[i], outcome)
           IN  /\ attempts' = [attempts EXCEPT ![i] = log]
               /\ IF ReturnsAfter(log)
                  THEN /\ status' = [status EXCEPT ![i] = "updating"]
                       /\ test_success' = [test_success EXCEPT ![i] = (outcome = "pass")]
                       /\ job' = [job EXCEPT ![w] = 0]
                       /\ updaters' = updaters \cup {[thread |-> w, test |-> i]}
                  ELSE UNCHANGED <<status, test_success, job, updaters>>
    /\ UNCHANGED <<pc, mainvars, changed_methods, changed_locators, scanvars, fastvars,
                   prioritized_tests, history, history0, calls, queue, all_success>>

\* Lines 310-340 on a worker thread: one attempt of the worker's test ends; the
\* call returns, the future is done and the thread is idle, or the next
\* attempt follows.  The function does not use the history.
WorkerAttempt(w) ==
    /\ pc = "pool"
    /\ w \in DOMAIN job
    /\ job[w] # 0
    /\ \E outcome \in PoolOutcomes(job[w]) :
           LET i == job[w]
               log == Append(attempts[i], outcome)
           IN  /\ attempts' = [attempts EXCEPT ![i] = log]
               /\ IF ReturnsAfter(log)
                  THEN /\ status' = [status EXCEPT ![i] = "returned"]
                       /\ test_success' = [test_success EXCEPT ![i] = (outcome = "pass")]
                       /\ job' = [job EXCEPT ![w] = 0]
                  ELSE UNCHANGED <<status, test_success, job>>
    /\ UNCHANGED <<pc, mainvars, changed_methods, changed_locators, scanvars, fastvars,
                   prioritized_tests, history, history0, calls, queue, updaters,
                   all_success>>

\* Lines 388-391: the coordinating thread gets a finished future from
\* as_completed and enters update_test_metrics; it is in no other call of it.
CollectBegin(i) ==
    /\ pc = "pool"
    /\ i \in Remaining
    /\ status[i] = "returned"
    /\ \A u \in updaters : u.thread # 0
    /\ updaters' = updaters \cup {[thread |-> 0, test |-> i]}
    /\ status' = [status EXCEPT ![i] = "updating"]
    /\ UNCHANGED <<pc, mainvars, changed_methods, changed_locators, scanvars, fastvars,
                   prioritized_tests, attempts, test_success, history, history0, calls,
                   queue, job, all_success>>

\* Lines 391-397: the call of update_test_metrics ends: the record is written,
\* and all_success is cleared for a failed test.
CollectEnd(i) ==
    /\ pc = "pool"
    /\ i \in Remaining
    /\ status[i] = "updating"
    /\ history' = UpdateTestMetrics(history, prioritized_tests[i], 0, test_success[i])
    /\ all_success' = (all_success /\ test_success[i])
    /\ status' = [status EXCEPT ![i] = "settled"]
    /\ updaters' = { u \in updaters : u.test # i }
    /\ UNCHANGED <<pc, mainvars, changed_methods, changed_locators, scanvars, fastvars,
                   prioritized_tests, attempts, test_success, history0, calls, queue,
                   job>>

\* Lines 383 and 404: every future is collected, the executor shuts down, the
\* function returns all_success.
PoolReturn ==
    /\ pc = "pool"
    /\ \A j \in Remaining : status[j] = "settled"
    /\ pc' = "run_done"
    /\ UNCHANGED <<mainvars, changed_methods, changed_locators, scanvars, runvars,
                   fastvars>>

PoolNext ==
    \/ \E w \in 1..MaxPoolTests : WorkerTake(w)
    \/ \E w \in 1..MaxPoolTests : WorkerAttempt(w)
    \/ \E i \in 1..(CriticalCount + MaxPoolTests) : CollectBegin(i)
    \/ \E i \in 1..(CriticalCount + MaxPoolTests) : CollectEnd(i)
    \/ PoolReturn

SpecPool == PoolInit /\ [][PoolNext]_vars

(***************************************************************************)
(* Claims about the ai_test_runner_3 pipeline.                             *)
(***************************************************************************)
\* C1: every path of the final tests_to_run, and every path handed to
\* run_tests_intelligently, is a member of the corpus, whatever the commit,
\* the static matches and the oracle's response.
C1_SelectionInCorpus ==
    /\ pc \in {"final", "done"} => Range(tests_to_run) \subseteq Range(repo_tests)
    /\ ran => Range(handed) \subseteq Range(repo_tests)

\* C1's case: the oracle named a path with a traversal sequence and a path
\* outside the repository, and a selection that holds a mapped path was run.
C1_Witness ==
    /\ pc = "done"
    /\ ran
    /\ InList(<<".", ".", "/", "t", "a", "a", "y">>, ai_suggested)
    /\ InList(<<"z", "z">>, ai_suggested)
    /\ mapped_tests # <<>>
    /\ Range(mapped_tests) \subseteq Range(handed)

\* C2, as claimed: in tests/ai_test_runner_full.py every line of the oracle's
\* response that is passed to the pytest invocation is a member of repo_tests.
C2_PytestArgsInCorpus ==
    ran => Range(handed) \subseteq Range(repo_tests)

\* C3, as claimed: a changed file that is a corpus path is in the final
\* tests_to_run, whatever the static matcher and the oracle return.
C3_DirectChangeSelected ==
    pc \in {"final", "done"} =>
        \A i \in 1..Len(changed_files) :
            InList(changed_files[i], repo_tests) => InList(changed_files[i], tests_to_run)

\* C4, as claimed: with no changed file the run selects and executes no test,
\* asks no oracle and exits 0.
C4_NoChangeNoRun ==
    (pc = "done" /\ changed_files = <<>>) =>
        /\ tests_to_run = <<>>
        /\ ~ran
        /\ ~oracle_called
        /\ exit_code = 0

\* C4, amended: with no changed file the oracle is never asked and nothing is
\* selected; in a repository without test files the run executes nothing and
\* exits 0; otherwise it executes exactly the first test of the corpus as a
\* smoke test and exits 0 when that test passes and 1 when it fails.
C4_NoChangeSmokeTest ==
    (pc # "start" /\ changed_files = <<>>) =>
        /\ ~oracle_called
        /\ tests_to_run = <<>>
        /\ pc = "done" =>
              IF repo_tests = <<>>
              THEN ~ran /\ exit_code = 0
              ELSE /\ ran
                   /\ handed = <<repo_tests[1]>>
                   /\ exit_code = (IF run_result = "passed" THEN 0 ELSE 1)

\* C4's case: the version control system reported no change, the smoke test
\* ran and failed.
C4_Witness ==
    /\ pc = "done"
    /\ changed_files = <<>>
    /\ ran
    /\ run_result = "failed"
    /\ exit_code = 1

\* C5, as claimed: a function with a line added or removed inside its body and
\* its signature line unchanged is in the set get_changed_methods returns, also
\* when the hunk shows its def line only in the header or not at all.
C5_BodyChangeAttributed ==
    pc = "scanned" /\ diff_output # <<>> =>
        BodyChanged(diff_output) \subseteq changed_methods

\* C6, as claimed: the oracle is asked only when the distinct candidates of the
\* direct-change step and the static matcher are none or more than 10.
C6_OracleOnlyWhenUninformative ==
    (pc = "asked" /\ oracle_called) =>
        \/ Cardinality(Range(tests_to_run)) = 0
        \/ Cardinality(Range(tests_to_run)) > TooMany

\* C7, as claimed: when the static matcher returns 12 distinct candidates the
\* final tests_to_run has exactly 8 entries, and a second run on the same
\* inputs selects the same 8, whatever the oracle answers.
C7_TwelveCappedToSameEight ==
    ( /\ pc \in {"final", "done"}
      /\ changed_methods # {}
      /\ Cardinality(Range(FindTestsUsingMethods(repo_tests, changed_methods))) = 12 ) =>
        /\ Len(tests_to_run) = SelectionCap
        /\ run_no = 2 => Range(tests_to_run) = Range(prev_selection)

\* C8, as claimed: when no method body of the file references a changed
\* locator, map_locators_to_methods returns the empty set.
C8_NoReferenceNoMethod ==
    (pc = "scanned" /\ file_lines # <<>> /\ ~BodyReferences(file_lines, changed_locators)) =>
        impacted_methods = {}

\* The corpus paths most similar to line among those at or above the cutoff.
MostSimilar(line, tests) ==
    LET M == MatchList(tests, line)
        T(i) == Total(tests[i], line)
    IN  { tests[i] : i \in { k \in 1..Len(tests) :
                               /\ 2 * M[k] * CutoffDen >= CutoffNum * T(k)
                               /\ \A j \in 1..Len(tests) : M[j] * T(k) <= M[k] * T(j) } }

\* C9: map_ai_files_to_repo returns a duplicate-free list of corpus paths; a
\* suggested line that is a corpus path is in it; any other line whose best
\* similarity is at or above 0.5 has one of its most similar corpus paths in it;
\* every path in it is a suggested line or most similar to one; and it has no
\* more paths than there are lines.
C9_MapAiFilesToRepo ==
    (pc = "merged" /\ ai_suggested # <<>>) =>
        /\ \A i, j \in 1..Len(mapped_tests) : i # j => mapped_tests[i] # mapped_tests[j]
        /\ Range(mapped_tests) \subseteq Range(repo_tests)
        /\ Len(mapped_tests) <= Len(ai_suggested)
        /\ \A i \in 1..Len(ai_suggested) :
              LET line == ai_suggested[i]
              IN  IF InList(line, repo_tests)
                  THEN InList(line, mapped_tests)
                  ELSE LET best == MostSimilar(line, repo_tests)
                       IN  best # {} => best \cap Range(mapped_tests) # {}
        /\ \A x \in Range(mapped_tests) :
              \E i \in 1..Len(ai_suggested) :
                  \/ ai_suggested[i] = x
                  \/ /\ ~InList(ai_suggested[i], repo_tests)
                     /\ x \in MostSimilar(ai_suggested[i], repo_tests)

\* C9's case: of two suggested lines outside the corpus one is mapped to its
\* nearest corpus path and the other is dropped.
C9_Witness ==
    /\ pc = "merged"
    /\ Len(repo_tests) > 1
    /\ ai_suggested = << <<".", ".", "/", "t", "a", "a", "y">>, <<"z", "z">> >>
    /\ mapped_tests = << <<"t", "a", "a", "y">> >>

\* C10: run_test_with_monitoring makes at most RETRY_ATTEMPTS attempts for a
\* test and none after one that passed; an attempt that times out or raises
\* counts as a failed one, so the call returns False only after RETRY_ATTEMPTS
\* attempts without a pass, and returns True exactly when an attempt passed; the
\* history entry recorded for the test is that return value.
C10_RetryWithinBudget ==
    \A i \in 1..Len(prioritized_tests) :
        /\ Len(attempts[i]) <= RETRY_ATTEMPTS
        /\ \A k \in 1..(Len(attempts[i]) - 1) : attempts[i][k] # "pass"
        /\ status[i] = "running" => \A k \in 1..Len(attempts[i]) : attempts[i][k] # "pass"
        /\ status[i] \in {"returned", "settled"} =>
              /\ test_success[i] = (\E k \in 1..Len(attempts[i]) : attempts[i][k] = "pass")
              /\ ~test_success[i] => Len(attempts[i]) = RETRY_ATTEMPTS
        /\ status[i] = "settled" =>
              /\ prioritized_tests[i] \in DOMAIN history
              /\ history[prioritized_tests[i]].success_rate =
                    Append(IF prioritized_tests[i] \in DOMAIN history0
                           THEN history0[prioritized_tests[i]].success_rate ELSE <<>>,
                           test_success[i])

\* C10's case: one test failed its first attempt, passed its second and has
\* True in its history entry; another timed out and then raised, and has False.
C10_Witness ==
    /\ pc = "run_done"
    /\ \E i \in 1..Len(prioritized_tests) :
           /\ attempts[i] = <<"fail", "pass">>
           /\ history[prioritized_tests[i]].success_rate = <<TRUE>>
    /\ \E i \in 1..Len(prioritized_tests) :
           /\ attempts[i] = <<"timeout", "error">>
           /\ history[prioritized_tests[i]].success_rate = <<FALSE>>

\* C11: a test at position 3 or later has started no attempt unless both
\* critical tests are settled, and the second critical test has not started
\* unless the first is settled, so the two never run at the same time.
C11_CriticalBeforeRemainder ==
    /\ \A i \in Remaining :
           (status[i] # "waiting" \/ attempts[i] # <<>>) =>
               \A j \in Critical : status[j] = "settled"
    /\ \A i, j \in Critical :
           (j < i /\ (status[i] # "waiting" \/ attempts[i] # <<>>)) => status[j] = "settled"
    /\ Cardinality({ j \in Critical : status[j] = "running" }) <= 1

\* C11's case: a remainder test is in its second attempt after the first
\* critical test failed and the second passed.
C11_Witness ==
    /\ pc = "pool"
    /\ \E i \in Remaining : status[i] = "running" /\ Len(attempts[i]) = 1
    /\ status[1] = "settled" /\ ~test_success[1]
    /\ status[2] = "settled" /\ test_success[2]

\* C12: run_tests_intelligently returns True exactly when every test of its
\* list settled as passed, and True for the empty list.
C12_SuccessIffAllPassed ==
    pc = "run_done" =>
        /\ \A i \in 1..Len(prioritized_tests) : status[i] = "settled"
        /\ all_success = (\A i \in 1..Len(prioritized_tests) : test_success[i])

\* C12's case: the call returned False with both critical tests passed and,
\* of two tests on the pool, one failed and one passed.
C12_Witness ==
    /\ pc = "run_done"
    /\ ~all_success
    /\ \A i \in Critical : test_success[i]
    /\ \E i, j \in Remaining : ~test_success[i] /\ test_success[j]

\* The record of path in history map h, the new record if it has none.
RecordOf(h, path) == IF path \in DOMAIN h THEN h[path] ELSE NewRecord

\* C13: when the call returns, every test of the list is settled and its
\* record holds exactly one entry more than when the call began (total_runs
\* one higher, the result appended), whatever failed and however many attempts
\* were made; the records of other paths are as they were.
C13_EveryTestSettledOnce ==
    pc = "run_done" =>
        /\ \A i \in 1..Len(prioritized_tests) :
               LET old == RecordOf(history0, prioritized_tests[i])
                   new == RecordOf(history, prioritized_tests[i])
               IN  /\ status[i] = "settled"
                   /\ attempts[i] # <<>>
                   /\ new.total_runs = old.total_runs + 1
                   /\ new.success_rate = Append(old.success_rate, test_success[i])
        /\ \A path \in DOMAIN history :
               path \notin Range(prioritized_tests) =>
                   path \in DOMAIN history0 /\ history[path] = history0[path]

\* C13's case: the first critical test failed both attempts, on a record of an
\* earlier run, and every other test was still run, one on the pool with a
\* retry.
C13_Witness ==
    /\ pc = "run_done"
    /\ Len(prioritized_tests) = MaxRunTests
    /\ ~test_success[1]
    /\ history0 # <<>>
    /\ history[prioritized_tests[1]].total_runs = 2
    /\ \E i \in Remaining : attempts[i] = <<"fail", "pass">>

\* The candidates of the direct-change step and the static matcher.
StaticCandidates ==
    ChangedTestFiles(changed_files, repo_tests)
    \o (IF changed_methods # {}
        THEN FindTestsUsingMethods(repo_tests, changed_methods)
        ELSE <<>>)

\* C14: when the request to the oracle times out, cannot connect, gets a status
\* other than 200 or a malformed body, ask_ollama_for_tests returns the empty
\* list and the pipeline goes on with the candidates of the static steps alone:
\* they are deduplicated, cut to 8 and run.
C14_OracleFailureDegrades ==
    oracle_reply \in OracleFailures =>
        /\ ai_suggested = <<>>
        /\ mapped_tests = <<>>
        /\ ended_by # "exception"
        /\ pc \in {"asked", "merged"} => tests_to_run = StaticCandidates
        /\ pc \in {"final", "done"} =>
              tests_to_run = Take(ListOfSet(StaticCandidates, seed), SelectionCap)
        /\ pc = "done" =>
              /\ ran = (StaticCandidates # <<>>)
              /\ ran => handed = tests_to_run

\* C14's case: with more than 10 static candidates the response was not JSON,
\* and 8 of the candidates were run.
C14_Witness ==
    /\ pc = "done"
    /\ oracle_reply = "not_json"
    /\ Len(StaticCandidates) > TooMany
    /\ ran
    /\ Len(handed) = SelectionCap


\* C15: ai_test_runner_fast run a second time at the same commit hands out the
\* list the first run cached, an empty one included, and computes nothing: no
\* changed files, no diff, no extraction, no oracle request.
C15_SecondRunFromCache ==
    (run_no = 2 /\ pc \in {"fast_selected", "done"}) =>
        /\ tests_to_run = prev_selection
        /\ ~parsed
        /\ ~oracle_called
        /\ changed_files = <<>> /\ changed_methods = {} /\ changed_locators = {}
        /\ pc = "done" => (ran = (prev_selection # <<>>) /\ (ran => handed = prev_selection))

C15_Witness ==
    /\ run_no = 2
    /\ pc = "done"
    /\ repo_tests # <<>>
    /\ CommitFiles(commit) # <<>>
    /\ prev_selection = <<>>
    /\ CacheHit(cache, commit)
    /\ ~ran

C18_InterruptStatusDistinct ==
    (pc = "done" /\ ended_by = "interrupt") =>
        /\ exit_code # 0
        /\ exit_code # FailureStatus
        /\ exit_code # ExceptionStatus

\* C17: when the process ends after a test has run to its result, the history
\* has been saved and the saved map holds the new entry of every test that has
\* run to its result.
C17_SavedHistoryHoldsSettled ==
    (pc = "done" /\ \E i \in 1..Len(prioritized_tests) : status[i] \in {"returned", "settled"}) =>
        /\ saved
        /\ \A i \in 1..Len(prioritized_tests) :
               status[i] \in {"returned", "settled"} =>
                   RecordOf(history, prioritized_tests[i]).total_runs
                       = RecordOf(history0, prioritized_tests[i]).total_runs + 1

\* C19: get_changed_methods and get_changed_locators give for a diff text the
\* same two sets in every call: the call on the text alone gives them again
\* after the other calls, and the call that reads another file's diff first
\* gives the union of them and of the other file's sets.
C19_ExtractionDependsOnTextOnly ==
    pc = "returned" =>
        /\ call_no = 2 =>
               /\ changed_methods = first_result.methods \cup DiffMethods(extract_in.a)
               /\ changed_locators = first_result.locators \cup DiffLocators(extract_in.a)
        /\ call_no = 3 =>
               /\ changed_methods = first_result.methods
               /\ changed_locators = first_result.locators

\* The text begins with an added line, read after a file whose diff ended
\* inside legacy_helper, which is not among the changed methods; the third
\* call has returned after a call that found other names.
C19_Witness ==
    /\ pc = "returned"
    /\ \/ /\ call_no = 2
          /\ extract_in.d # <<>> /\ extract_in.d[1].mark = "+"
          /\ extract_in.a # <<>> /\ DiffMethods(extract_in.a) = {}
          /\ LegacyHelper \notin changed_methods
       \/ /\ call_no = 3
          /\ DiffMethods(extract_in.a) # {}
          /\ first_result.methods # {} /\ first_result.locators # {}
          /\ SubmitOrder \notin changed_methods

\* The lines of a file that belong to the function m: from its def line to the
\* next def line.
RegionOf(lines, m) ==
    { j \in 1..Len(lines) :
        \E i \in 1..(j - 1) :
            /\ lines[i].kind = "def" /\ lines[i].name = m
            /\ \A k \in (i + 1)..j : lines[k].kind # "def" }

\* C20: after the locator expansion every method found in the diffs is still
\* in changed_methods, and every name added is defined in a changed Python file
\* and has a line of its own that names a changed locator; a method that only
\* calls such a method is not added.
C20_ExpansionOnlyGrows ==
    pc = "analysed" =>
        LET direct == GetChangedMethods(commit, changed_files)
            added == changed_methods \ direct
            py == { changed_files[i] : i \in { j \in 1..Len(changed_files) :
                                                 EndsWithPy(changed_files[j]) } }
        IN  /\ direct \subseteq changed_methods
            /\ \A m \in added :
                   \E path \in py :
                       \E j \in RegionOf(FileLines(path), m) :
                           \E loc \in changed_locators :
                               \E id \in FileLines(path)[j].idents : IsSubSeq(loc, id)

\* A locator and the bodies of test functions have changed: click_submit is
\* added, its caller submit_order is not, and the test functions are kept.
C20_Witness ==
    /\ pc = "analysed"
    /\ changed_locators = {NewButtonLocator}
    /\ TestFn(1) \in changed_methods
    /\ ClickSubmit \in changed_methods
    /\ SubmitOrder \notin changed_methods

\* C21: the list handed to run_tests_intelligently holds no path twice and at
\* most 8 paths.
C21_HandedDistinctAndCapped ==
    ran =>
        /\ Len(handed) <= SelectionCap
        /\ \A i, j \in 1..Len(handed) : handed[i] = handed[j] => i = j

\* Changed test files that also use a changed method were candidates twice,
\* more than 8 distinct candidates were left, and 8 of them were run.
C21_Witness ==
    /\ pc = "done"
    /\ ran
    /\ Len(StaticCandidates) > Cardinality(Range(StaticCandidates))
    /\ Cardinality(Range(StaticCandidates)) > SelectionCap
    /\ Len(handed) = SelectionCap

\* C22: after any calls of update_test_metrics on an empty history, in every
\* record the two lists are equally long, hold the last min(total_runs, 20)
\* times and results of the calls for that file in call order, and
\* recent_failures counts the failures among the last 5 results.
C22_RecordShape ==
    \A path \in DOMAIN history :
        LET rec == history[path]
            mine == CallsFor(path)
            len == Len(rec.success_rate)
            from == Len(mine) - len
            recent == { i \in 1..len : i > len - RecentWindow }
        IN  /\ rec.total_runs = Len(mine)
            /\ Len(rec.execution_times) = len
            /\ len <= HistoryKeep
            /\ len = (IF rec.total_runs < HistoryKeep THEN rec.total_runs ELSE HistoryKeep)
            /\ \A i \in 1..len :
                   /\ rec.execution_times[i] = mine[from + i].time
                   /\ rec.success_rate[i] = mine[from + i].ok
            /\ rec.recent_failures = Cardinality({ i \in recent : ~rec.success_rate[i] })
            /\ rec.recent_failures \in 0..RecentWindow

\* A record after more than 20 calls whose oldest kept result differs from the
\* dropped ones' pattern, with failures outside and inside the last 5 results,
\* and a second record.
C22_Witness ==
    /\ TestPath(1) \in DOMAIN history
    /\ TestPath(2) \in DOMAIN history
    /\ history[TestPath(1)].total_runs = MaxCalls
    /\ Len(history[TestPath(1)].success_rate) = HistoryKeep
    /\ history[TestPath(1)].recent_failures = 2
    /\ \E i \in 1..(HistoryKeep - RecentWindow) : ~history[TestPath(1)].success_rate[i]

\* C28: in the execution order no test with a recent failure stands behind a
\* test without one, a test without a record included; so when at most 2 of
\* the tests have recent failures, they are among the critical tests.
C28_RecentFailuresFirst ==
    pc = "critical" =>
        LET Failing(i) == RecordOf(history, prioritized_tests[i]).recent_failures >= 1
            failing == { i \in 1..Len(prioritized_tests) : Failing(i) }
        IN  /\ \A i, j \in 1..Len(prioritized_tests) :
                   (i < j /\ Failing(j)) => Failing(i)
            /\ Cardinality(failing) <= CriticalCount => failing \subseteq Critical

\* C23: at most one call of update_test_metrics is executing at any time, and
\* it is the coordinating thread's; when the function returns, every test of
\* the pool has exactly one entry in the history.
C23_SingleWriter ==
    /\ Cardinality(updaters) <= 1
    /\ \A u \in updaters : u.thread = 0
    /\ pc = "run_done" =>
           \A i \in Remaining :
               /\ prioritized_tests[i] \in DOMAIN history
               /\ history[prioritized_tests[i]].total_runs = 1
               /\ history[prioritized_tests[i]].success_rate = <<test_success[i]>>

\* The coordinating thread is in update_test_metrics while two finished tests
\* wait to be collected and a worker still runs a test.
C23_Witness ==
    /\ updaters # {}
    /\ Cardinality({ i \in Remaining : status[i] = "returned" }) >= 2
    /\ \E w \in DOMAIN job : job[w] # 0

\* C24: on the pool at most min(4, number of remainder tests) tests run at the
\* same time, and no test is run by two workers.
C24_PoolBounded ==
    LET running == { i \in Remaining : status[i] = "running" }
        limit == IF Cardinality(Remaining) < MAX_PARALLEL_TESTS
                 THEN Cardinality(Remaining) ELSE MAX_PARALLEL_TESTS
    IN  /\ Cardinality(running) <= limit
        /\ running = { job[w] : w \in DOMAIN job } \ {0}
        /\ \A v, w \in DOMAIN job : (v # w /\ job[v] # 0) => job[v] # job[w]
        /\ \A i \in Remaining : status[i] = "waiting" <=> InList(i, queue)

\* Five tests were submitted, four are running and the fifth waits.
C24_Witness ==
    /\ Cardinality(Remaining) > MAX_PARALLEL_TESTS
    /\ Cardinality({ i \in Remaining : status[i] = "running" }) = MAX_PARALLEL_TESTS
    /\ queue # <<>>

\* The functions whose def line the diff shows and whose span, from the def
\* line to the next def line or the end of the hunk, holds an added or removed
\* line, the def line included.
SpanChanged(diff) ==
    { diff[i].name :
        i \in { d \in 1..Len(diff) :
                  /\ diff[d].kind = "def"
                  /\ diff[d].mark \in {" ", "+", "-"}
                  /\ \E j \in d..Len(diff) :
                         /\ diff[j].mark \in {"+", "-"}
                         /\ \A k \in (d + 1)..j :
                                \/ diff[k].mark \in {" ", "+", "-"} /\ diff[k].kind # "def"
                                \/ k = j /\ diff[k].name = diff[d].name
                                         /\ diff[k].mark \in {"+", "-"} } }

\* C25: every function with an added or removed line in its span, its def line
\* included, is in the set get_changed_methods returns; so is a function of
\* which only the def line was replaced.
C25_SpanChangeDetected ==
    pc = "scanned" => SpanChanged(diff_output) \subseteq changed_methods

(***************************************************************************)
(* ai_test_runner_3.py, lines 434-442, on a repository whose locator       *)
(* constants may live in a module of their own.                            *)
(***************************************************************************)
\* The non-test source files of the repository.
SourceFiles == <<PagePath, LocatorsPath>>

\* The commits of Commits and those that edit the locator in its own module.
ExpandInit ==
    /\ repo_tests \in { Corpus(n) : n \in CorpusSizes }
    /\ commit \in { c \in [d : 0..Len(repo_tests), showDef : BOOLEAN,
                           src : SourceChanges \cup {"locators_file"}] :
                       /\ c.d \in ChangedCounts(Len(repo_tests))
                       /\ c.d = 0 => c.showDef }
    /\ Fresh
    /\ run_no = 1
    /\ prev_selection = <<>>
    /\ ScanAtRest
    /\ RunAtRest
    /\ FastAtRest

ExpandNext ==
    \/ GetChangedFiles
    \/ Analyse

SpecExpand == ExpandInit /\ [][ExpandNext]_vars

\* C26: after the expansion step every method of a non-test source file whose
\* body mentions a changed locator is in changed_methods, also when that file
\* is not among the changed files.
C26_EverySourceFileExpanded ==
    pc = "analysed" =>
        \A i \in 1..Len(SourceFiles) :
            MapLocatorsToMethods(FileLines(SourceFiles[i]), changed_locators)
                \subseteq changed_methods

(***************************************************************************)
(* ai_test_runner_full_2.py: get_changed_files, get_file_diff and the      *)
(* __main__ block up to file_diffs, on a branch of one or more commits.    *)
(***************************************************************************)
\* The files of the branch, in the order git lists them.
BranchFiles == <<PagePath, ReadmePath, TestPath(1)>>

\* The branches: revision 1 is the merge base with the upstream (or the base)
\* branch, the last one is HEAD, which the working tree equals; a revision
\* gives each file's content.
Branches ==
    UNION { [1..(n + 1) -> [Range(BranchFiles) -> 0..1]] : n \in 1..MaxAhead }

\* Line 81: f.startswith("logs/") or f.endswith(".md") or f.endswith(".txt")
IsFiltered(f) == f = ReadmePath

\* "git diff --name-only" between revisions a and b, after lines 79-83.
NameOnly(revs, a, b) ==
    LET Listed(f) == revs[a][f] # revs[b][f] /\ ~IsFiltered(f)
    IN  SelectSeq(BranchFiles, Listed)

\* "git diff" of one file between revisions a and b: nothing when the contents
\* are equal, else the old and the new content.
DiffText(revs, a, b, f) ==
    IF revs[a][f] = revs[b][f] THEN <<>> ELSE <<revs[a][f], revs[b][f]>>

\* Lines 91-92: get_file_diff: "git diff HEAD~1 -- file_path".
GetFileDiff(revs, f) == DiffText(revs, Len(revs) - 1, Len(revs), f)

Full2Init ==
    /\ repo_tests \in {Corpus(0), Corpus(1)}
    /\ commit = [d |-> 0, showDef |-> TRUE, src |-> "none"]
    /\ Fresh
    /\ run_no = 1
    /\ prev_selection = <<>>
    /\ ScanAtRest
    /\ RunAtRest
    /\ cache = <<>>
    /\ parsed = FALSE
    /\ revisions \in Branches
    /\ mode \in {"ci", "upstream", "local"}
    /\ name_refs = <<>>
    /\ file_diffs = <<>>

\* Lines 59-88: get_changed_files: against the merge base with origin/<base>
\* in CI and with @{u} when an upstream is set, else against HEAD~1; nothing
\* when the git command fails.
Full2GetChangedFiles ==
    /\ pc = "start"
    /\ name_refs' = IF mode \in {"ci", "upstream"}
                    THEN <<1, Len(revisions)>>
                    ELSE <<Len(revisions) - 1, Len(revisions)>>
    /\ \/ changed_files' = NameOnly(revisions, name_refs'[1], name_refs'[2])
       \/ changed_files' = <<>>
    /\ pc' = "full2_changed"
    /\ UNCHANGED <<repo_tests, commit, changed_methods, changed_locators,
                   tests_to_run, oracle_called, oracle_reply, ai_suggested, mapped_tests, seed,
                   handed, ran, run_result, saved, exit_code, ended_by, run_no,
                   prev_selection, scanvars, runvars, cache, parsed, revisions, mode,
                   file_diffs>>

\* Lines 229-231: no changed file: exit(0).
Full2NoChanges ==
    /\ pc = "full2_changed"
    /\ changed_files = <<>>
    /\ exit_code' = 0
    /\ ended_by' = "exit"
    /\ pc' = "done"
    /\ UNCHANGED <<repo_tests, commit, changed_files, changed_methods,
                   changed_locators, tests_to_run, oracle_called, oracle_reply, ai_suggested,
                   mapped_tests, seed, handed, ran, run_result, saved, run_no,
                   prev_selection, scanvars, runvars, fastvars>>

\* Lines 233-236: no test file: exit(0).
Full2NoTestFiles ==
    /\ pc = "full2_changed"
    /\ changed_files # <<>>
    /\ repo_tests = <<>>
    /\ exit_code' = 0
    /\ ended_by' = "exit"
    /\ pc' = "done"
    /\ UNCHANGED <<repo_tests, commit, changed_files, changed_methods,
                   changed_locators, tests_to_run, oracle_called, oracle_reply, ai_suggested,
                   mapped_tests, seed, handed, ran, run_result, saved, run_no,
                   prev_selection, scanvars, runvars, fastvars>>

\* Line 238: file_diffs = {f: get_file_diff(f) for f in changed_files}
Full2FileDiffs ==
    /\ pc = "full2_changed"
    /\ changed_files # <<>>
    /\ repo_tests # <<>>
    /\ file_diffs' = [f \in Range(changed_files) |-> GetFileDiff(revisions, f)]
    /\ pc' = "full2_diffed"
    /\ UNCHANGED <<repo_tests, commit, changed_files, changed_methods,
                   changed_locators, tests_to_run, oracle_called, oracle_reply, ai_suggested,
                   mapped_tests, seed, handed, ran, run_result, saved, exit_code, ended_by,
                   run_no, prev_selection, scanvars, runvars, cache, parsed, revisions,
                   mode, name_refs>>

Full2Next ==
    \/ Full2GetChangedFiles
    \/ Full2NoChanges
    \/ Full2NoTestFiles
    \/ Full2FileDiffs

SpecFull2 == Full2Init /\ [][Full2Next]_vars

\* C27: when the changed-file list was computed against the upstream or the
\* CI base branch, the diff kept for each listed file is the diff of that file
\* between the two revisions the list was computed from.
C27_DiffBetweenListedRefs ==
    pc = "full2_diffed" /\ mode \in {"ci", "upstream"} =>
        \A f \in DOMAIN file_diffs :
            file_diffs[f] = DiffText(revisions, name_refs[1], name_refs[2], f)

(***************************************************************************)
(* ai_test_selector_3.py: AITestSelector.select_tests over the changed     *)
(* files of the working tree.                                              *)
(***************************************************************************)
\* tests/conftest.py: a Python file under tests/ that is no test_*.py file.
HelperPath == <<"t", "c", "y">>

\* changed_file.startswith('tests/') and changed_file.startswith('pages/')
StartsWithTests(p) == p # <<>> /\ Head(p) = "t"

StartsWithPages(p) == p # <<>> /\ Head(p) = "p"

\* The files git may report as changed when the corpus is tests: the page
\* object, the helper, a file that is no Python file, a test of the corpus and
\* a test file that was deleted and is in the corpus no more.
ChangeCandidates(tests) ==
    {PagePath, HelperPath, ReadmePath, TestPath(1), TestPath(Len(tests) + 1)}

\* Lines 210-228: find_impacted_tests: with no changed method every test that
\* uses the page, else the tests that call a changed method.
FindImpactedTests(tests, methods) ==
    LET Impacted(t) ==
            \E i \in 1..Len(FileLines(t)) :
                /\ FileLines(t)[i].calls # {}
                /\ methods # {} => FileLines(t)[i].calls \cap methods # {}
    IN  SelectSeq(tests, Impacted)

\* Lines 252-283: the loop over the changed files, cms giving the changed
\* methods CodeAnalyzer.get_changed_methods finds in each page file.
RECURSIVE SelectLoop(_, _, _)
SelectLoop(files, tests, cms) ==
    IF files = <<>> THEN <<>>
    ELSE LET f == Head(files)
             here == IF StartsWithTests(f) /\ EndsWithPy(f) THEN <<f>>
                     ELSE IF StartsWithPages(f) /\ EndsWithPy(f)
                     THEN FindImpactedTests(tests, cms)
                     ELSE <<>>
         IN  here \o SelectLoop(Tail(files), tests, cms)

Select3Init ==
    /\ repo_tests \in { Corpus(n) : n \in 0..3 }
    /\ commit = [d |-> 0, showDef |-> TRUE, src |-> "none"]
    /\ Fresh
    /\ run_no = 1
    /\ prev_selection = <<>>
    /\ ScanAtRest
    /\ RunAtRest
    /\ FastAtRest

\* Lines 18-34: GitChangeDetector.get_changed_files: the Python files among the
\* unstaged and staged changes, as list(set(...)).
Select3GetChangedFiles ==
    /\ pc = "start"
    /\ \E S \in SUBSET ChangeCandidates(repo_tests), sd \in Seeds :
           /\ seed' = sd
           /\ changed_files' = ListOfSet(SelectSeq(SortedList(S), EndsWithPy), sd)
    /\ pc' = "select3_changed"
    /\ UNCHANGED <<repo_tests, commit, changed_methods, changed_locators, tests_to_run,
                   oracle_called, oracle_reply, ai_suggested, mapped_tests, handed, ran,
                   saved, exit_code, ended_by, run_no, prev_selection, run_result,
                   scanvars, runvars, fastvars>>

\* Lines 245-247: no changed file: select_tests returns [].
Select3NoChanges ==
    /\ pc = "select3_changed"
    /\ changed_files = <<>>
    /\ tests_to_run' = <<>>
    /\ pc' = "select3_returned"
    /\ UNCHANGED <<repo_tests, commit, changed_files, changed_methods, changed_locators,
                   oracle_called, oracle_reply, ai_suggested, mapped_tests, seed, handed,
                   ran, saved, exit_code, ended_by, run_no, prev_selection, run_result,
                   scanvars, runvars, fastvars>>

\* Lines 249-285: the loop over the changed files and list(set(tests_to_run)).
Select3Select ==
    /\ pc = "select3_changed"
    /\ changed_files # <<>>
    /\ \E cms \in SUBSET {SubmitOrder, ClickSubmit, LegacyHelper} :
           /\ changed_methods' = cms
           /\ tests_to_run' = ListOfSet(SelectLoop(changed_files, repo_tests, cms), seed)
    /\ pc' = "select3_returned"
    /\ UNCHANGED <<repo_tests, commit, changed_files, changed_locators, oracle_called,
                   oracle_reply, ai_suggested, mapped_tests, seed, handed, ran, saved,
                   exit_code, ended_by, run_no, prev_selection, run_result, scanvars,
                   runvars, fastvars>>

Select3Next ==
    \/ Select3GetChangedFiles
    \/ Select3NoChanges
    \/ Select3Select

SpecSelect3 == Select3Init /\ [][Select3Next]_vars

\* C29: every path select_tests returns is a file of the corpus that
\* find_all_test_files returns, whatever files have changed.
C29_SelectedInCorpus ==
    pc = "select3_returned" =>
        \A i \in 1..Len(tests_to_run) : InList(tests_to_run[i], repo_tests)

(***************************************************************************)
(* ai_test_selector_5.py: the __main__ block and ask_ollama_for_tests.     *)
(***************************************************************************)
\* Line 176: requests.post is called outside the try statement and without a
\* timeout: a refused connection and a connect attempt that the system gives
\* up raise an exception of requests in the caller.
PostRaises == {"timeout", "connection"}

\* Lines 177-182: what the try statement makes of a response that is no text:
\* "" for a missing field, [] from the except clause otherwise.
Select5FailureResult(kind) ==
    IF kind \in {"no_field", "status"} THEN StrippedLines(<<>>) ELSE <<>>

\* Lines 203-215: the changed files (none when the git command fails), the
\* changed methods and locators, the methods the locators add.
Select5Analyse ==
    /\ pc = "start"
    /\ \/ changed_files' = CommitFiles(commit)
       \/ changed_files' = <<>>
    /\ changed_locators' = GetChangedLocators(commit, changed_files')
    /\ changed_methods' = GetChangedMethods(commit, changed_files')
                            \cup LocatorMethods(changed_files', changed_locators')
    /\ pc' = "select5_analysed"
    /\ UNCHANGED <<repo_tests, commit, tests_to_run, oracle_called, oracle_reply,
                   ai_suggested, mapped_tests, seed, handed, ran, saved, exit_code,
                   ended_by, run_no, prev_selection, run_result, scanvars, runvars,
                   fastvars>>

\* Lines 217-221: a changed file is a test of the corpus: pytest, exit(0).
Select5RunChanged ==
    /\ pc = "select5_analysed"
    /\ ChangedTestFiles(changed_files, repo_tests) # <<>>
    /\ tests_to_run' = ChangedTestFiles(changed_files, repo_tests)
    /\ handed' = tests_to_run'
    /\ ran' = TRUE
    /\ exit_code' = 0
    /\ ended_by' = "exit"
    /\ pc' = "done"
    /\ UNCHANGED <<repo_tests, commit, changed_files, changed_methods, changed_locators,
                   oracle_called, oracle_reply, ai_suggested, mapped_tests, seed, saved,
                   run_no, prev_selection, run_result, scanvars, runvars, fastvars>>

\* Lines 223-228: a test uses a changed method: pytest, exit(0).
Select5RunMatched ==
    /\ pc = "select5_analysed"
    /\ ChangedTestFiles(changed_files, repo_tests) = <<>>
    /\ FindTestsUsingMethods(repo_tests, changed_methods) # <<>>
    /\ tests_to_run' = FindTestsUsingMethods(repo_tests, changed_methods)
    /\ handed' = tests_to_run'
    /\ ran' = TRUE
    /\ exit_code' = 0
    /\ ended_by' = "exit"
    /\ pc' = "done"
    /\ UNCHANGED <<repo_tests, commit, changed_files, changed_methods, changed_locators,
                   oracle_called, oracle_reply, ai_suggested, mapped_tests, seed, saved,
                   run_no, prev_selection, run_result, scanvars, runvars, fastvars>>

\* Line 231 and lines 161-184: ask_ollama_for_tests: the stripped non-empty
\* lines of the answer, [] when the body cannot be read; an exception raised by
\* requests.post leaves the function and, nothing catching it, the script,
\* which the interpreter ends with a traceback and status 1.
Select5AskOracle ==
    /\ pc = "select5_analysed"
    /\ ChangedTestFiles(changed_files, repo_tests) = <<>>
    /\ FindTestsUsingMethods(repo_tests, changed_methods) = <<>>
    /\ oracle_called' = TRUE
    /\ \/ \E text \in OracleTexts :
              /\ oracle_reply' = "text"
              /\ ai_suggested' = StrippedLines(text)
              /\ pc' = "select5_asked"
              /\ UNCHANGED <<exit_code, ended_by>>
       \/ \E kind \in OracleFailures \ PostRaises :
              /\ oracle_reply' = kind
              /\ ai_suggested' = Select5FailureResult(kind)
              /\ pc' = "select5_asked"
              /\ UNCHANGED <<exit_code, ended_by>>
       \/ \E kind \in PostRaises :
              /\ oracle_reply' = kind
              /\ ai_suggested' = ai_suggested
              /\ exit_code' = 1
              /\ ended_by' = "exception"
              /\ pc' = "done"
    /\ UNCHANGED <<repo_tests, commit, changed_files, changed_methods, changed_locators,
                   tests_to_run, mapped_tests, seed, handed, ran, saved, run_no,
                   prev_selection, run_result, scanvars, runvars, fastvars>>

\* Lines 232-238: the suggestions mapped to the corpus; pytest when there is
\* one, a warning otherwise; the script ends.
Select5Finish ==
    /\ pc = "select5_asked"
    /\ \E sd \in Seeds :
           /\ seed' = sd
           /\ mapped_tests' = ListOfSet(MapAll(ai_suggested, repo_tests), sd)
    /\ tests_to_run' = mapped_tests'
    /\ handed' = mapped_tests'
    /\ ran' = (mapped_tests' # <<>>)
    /\ exit_code' = 0
    /\ ended_by' = "end"
    /\ pc' = "done"
    /\ UNCHANGED <<repo_tests, commit, changed_files, changed_methods, changed_locators,
                   oracle_called, oracle_reply, ai_suggested, saved, run_no,
                   prev_selection, run_result, scanvars, runvars, fastvars>>

Select5Next ==
    \/ Select5Analyse
    \/ Select5RunChanged
    \/ Select5RunMatched
    \/ Select5AskOracle
    \/ Select5Finish

SpecSelect5 == PipelineInit /\ [][Select5Next]_vars

\* C30: when the oracle cannot be reached or does not answer in time, the
\* suggestion is empty, no exception ends the script, and the script ends
\* with status 0 and no test run.
C30_OfflineEndsNormally ==
    oracle_reply \in {"timeout", "connection"} =>
        /\ ai_suggested = <<>>
        /\ ended_by # "exception"
        /\ pc = "done" => exit_code = 0 /\ ~ran

=========================================================================
